---- MODULE Spec2Model ----
(***************************************************************************)
(* Arithmetic on integers written in an arbitrary radix: the               *)
(* binary-conversion core (big_integer, big_integer_arithmetic,            *)
(* impl_binary_conversion) and the naive digit-wise core (impl_naive).     *)
(*                                                                         *)
(* A big_integer is the record [sign, mem]: mem is the little-endian byte  *)
(* buffer, mem[i + 1] being the C byte mem[i], and length is Len(mem).     *)
(* A C string is the sequence of its character codes without the NUL.      *)
(* A 64-bit lane is a sequence of 8 bytes, least significant first, and a  *)
(* 128-bit vector is a pair of lanes, so that no intermediate value is     *)
(* wider than 16 bits.                                                     *)
(***************************************************************************)
EXTENDS Integers, Sequences, FiniteSets, TLC

\* ------------------------------------------------------------------------
\* Bounds of the model
\* ------------------------------------------------------------------------

\* Longest digit string (sign excluded) of the exhaustive operands.
MaxDigits == 2

\* Number of digits of the long operands.
LongDigits == 16

\* The base of the long operands.
LongBase == 128

\* ------------------------------------------------------------------------
\* C integer helpers
\* ------------------------------------------------------------------------

Pow2(n) == <<1, 2, 4, 8, 16, 32, 64, 128, 256>>[n + 1]

\* abs() of <stdlib.h>
abs(x) == IF x < 0 THEN -x ELSE x

\* A size_t is held as the integer it is congruent to modulo 2^64: a negative
\* integer d stands for the wrapped value 2^64 + d, which is greater than every
\* size that is not wrapped.
size_t_gt(a, b) == IF (a < 0) # (b < 0) THEN a < 0 ELSE a > b

max(a, b) == IF size_t_gt(a, b) THEN a ELSE b

min(a, b) == IF size_t_gt(b, a) THEN a ELSE b

binary_logarithm_8bit_abs_ceil(value) ==
  IF abs(value) > 128 THEN 8
  ELSE IF abs(value) > 64 THEN 7
  ELSE IF abs(value) > 32 THEN 6
  ELSE IF abs(value) > 16 THEN 5
  ELSE IF abs(value) > 8 THEN 4
  ELSE IF abs(value) > 4 THEN 3
  ELSE IF abs(value) > 2 THEN 2
  ELSE IF abs(value) > 1 THEN 1
  ELSE -1

\* ------------------------------------------------------------------------
\* The C statements
\* ------------------------------------------------------------------------

\* A local variable: Body with the value v for its parameter.  The value is
\* computed once, however often Body uses it, and the comparison has it
\* computed before Body, as C computes a local before the statements after it.
With(v, Body(_)) == IF v = v THEN Body(v) ELSE v

\* the iterations Rest of a loop after the ones that made left, unless one of
\* those has left the loop
LoopRest(left, Rest(_)) == IF left.stop THEN left ELSE Rest(left)

RECURSIVE Loop(_, _, _, _)
\* for (i = lo; i < hi; i++) st = Step(st, i), left by a break or a return as
\* soon as st.stop holds.  The range is halved so that the evaluation nests
\* only logarithmically deep; the iterations run in the order lo, lo + 1, ...
Loop(Step(_, _), st, lo, hi) ==
  CASE hi <= lo -> st
    [] hi = lo + 1 -> Step(st, lo)
    [] OTHER -> LoopRest(Loop(Step, st, lo, (lo + hi) \div 2),
                         LAMBDA left : Loop(Step, left, (lo + hi) \div 2, hi))

\* The sequence f given as a function on 1..n, as a tuple.
Tup(f) == SubSeq(f, 1, Len(f))

Zeros(n) == Tup([k \in 1..n |-> 0])

\* x | y on bytes: the bits set in x or in y, added up
BitOr8(x, y) ==
  Loop(LAMBDA s, k : [v |-> s.v + (IF (x \div Pow2(k)) % 2 = 1 \/ (y \div Pow2(k)) % 2 = 1
                                   THEN Pow2(k) ELSE 0),
                      stop |-> FALSE],
       [v |-> 0, stop |-> FALSE], 0, 8).v

\* x | y on unsigned 16-bit values
BitOr(x, y) ==
  Loop(LAMBDA s, k : [v |-> s.v + (IF (x \div 2^k) % 2 = 1 \/ (y \div 2^k) % 2 = 1
                                   THEN 2^k ELSE 0),
                      stop |-> FALSE],
       [v |-> 0, stop |-> FALSE], 0, 16).v

\* ------------------------------------------------------------------------
\* 64-bit lanes and 128-bit vectors (SSE4): a lane is its 8 bytes, the least
\* significant first
\* ------------------------------------------------------------------------

\* The lane holding the small value v (0 <= v <= 255).
Lane(v) == <<v, 0, 0, 0, 0, 0, 0, 0>>

\* the carry into byte k of x + y: a byte below k overflows and every byte
\* between the two passes the carry on
LaneCarryInto(x, y, k) ==
  \E j \in 1..(k - 1) : x[j] + y[j] > 255 /\ \A m \in (j + 1)..(k - 1) : x[m] + y[m] = 255

\* unsigned 64-bit addition, modulo 2^64
LaneAdd(x, y) ==
  Tup([k \in 1..8 |-> (x[k] + y[k] + (IF LaneCarryInto(x, y, k) THEN 1 ELSE 0)) % 256])

\* the borrow from byte k of x - y: a byte below k is too small and every byte
\* between the two passes the borrow on
LaneBorrowFrom(x, y, k) ==
  \E j \in 1..(k - 1) : x[j] < y[j] /\ \A m \in (j + 1)..(k - 1) : x[m] = y[m]

\* unsigned 64-bit subtraction, modulo 2^64
LaneSub(x, y) ==
  Tup([k \in 1..8 |-> (x[k] - y[k] - (IF LaneBorrowFrom(x, y, k) THEN 1 ELSE 0) + 256) % 256])

\* x << n on an unsigned 64-bit lane, 0 <= n <= 7: a byte takes the bits its
\* lower neighbour loses
LaneShl(x, n) ==
  Tup([k \in 1..8 |-> (x[k] * Pow2(n)
                        + (IF k > 1 THEN (x[k - 1] * Pow2(n)) \div 256 ELSE 0)) % 256])

\* unsigned x > y: the highest byte in which they differ decides
LaneGt(x, y) == \E k \in 1..8 : x[k] > y[k] /\ \A j \in (k + 1)..8 : x[j] = y[j]

\* signed 64-bit x > y (two's complement)
LaneSignedGt(x, y) ==
  IF (x[8] >= 128) # (y[8] >= 128) THEN y[8] >= 128
  ELSE LaneGt(x, y)

LaneAllOnes == <<255, 255, 255, 255, 255, 255, 255, 255>>

\* 2^63, the constant 9223372036854775808ULL
LaneSignBit == <<0, 0, 0, 0, 0, 0, 0, 128>>

Vec(lo, hi) == [lo |-> lo, hi |-> hi]

\* the lane of v that k selects: 0 the low one, 1 the high one
LaneAt(v, k) == IF k = 0 THEN v.lo ELSE v.hi

\* the vector that Op makes lane by lane
PerLane(Op(_)) == Vec(Op(0), Op(1))

mm_add_epi64(a, b) == PerLane(LAMBDA k : LaneAdd(LaneAt(a, k), LaneAt(b, k)))

mm_sub_epi64(a, b) == PerLane(LAMBDA k : LaneSub(LaneAt(a, k), LaneAt(b, k)))

\* _mm_and_si128(x, lower64_mask)
mm_and_lower64(a) == Vec(a.lo, Zeros(8))

\* _mm_cmpgt_epi64: all ones in a lane where a > b (signed), else zero
mm_cmpgt_epi64(a, b) ==
  PerLane(LAMBDA k : IF LaneSignedGt(LaneAt(a, k), LaneAt(b, k)) THEN LaneAllOnes
                     ELSE Zeros(8))

\* _mm_testz_si128(x, x): 1 when x is all zero
mm_testz_si128(a) == a.lo = Zeros(8) /\ a.hi = Zeros(8)

mm_or_si128(a, b) ==
  PerLane(LAMBDA k : Tup([j \in 1..8 |-> BitOr8(LaneAt(a, k)[j], LaneAt(b, k)[j])]))

\* ------------------------------------------------------------------------
\* big_integer: creation and utilities
\* ------------------------------------------------------------------------

create_big_integer(bytes, sign) == [sign |-> sign, mem |-> Zeros(bytes)]

create_big_integer_of_bytes(bytes, sign) == [sign |-> sign, mem |-> bytes]

\* a size that divides the bits of one digit by 8 before it multiplies
get_big_integer_min_size_exponentiation_divided_first(base, exponent) ==
  (binary_logarithm_8bit_abs_ceil(base) \div 8) * exponent + 1

get_big_integer_min_size_exponentiation(base, exponent) ==
  ((binary_logarithm_8bit_abs_ceil(base) * exponent) \div 8) + 1

get_big_integer_min_size(base, length) ==
  get_big_integer_min_size_exponentiation(base, length)

\* index is the C index (0 is the least significant byte)
set_byte_value_of_big_integer(big_int, index, value) ==
  [big_int EXCEPT !.mem[index + 1] = value % 256]

get_byte_value_of_big_integer(big_int, index) == big_int.mem[index + 1]

set_bit_value_of_big_integer(big_int, bit_index, value) ==
  With(get_byte_value_of_big_integer(big_int, bit_index \div 8), LAMBDA byte :
    With((byte \div Pow2(bit_index % 8)) % 2 = 1, LAMBDA isset :
      set_byte_value_of_big_integer(big_int, bit_index \div 8,
        IF value = isset THEN byte
        ELSE IF value THEN byte + Pow2(bit_index % 8)
        ELSE byte - Pow2(bit_index % 8))))

\* zero-extended 7 bytes starting at index, as a 64-bit lane
get_7_bytes__of_big_integer(big_int, index) ==
  Tup([k \in 1..8 |-> IF k <= 7 THEN big_int.mem[index + k] ELSE 0])

set_7_bytes__of_big_integer(big_int, index, value) ==
  [big_int EXCEPT !.mem = Tup([k \in 1..Len(big_int.mem) |->
      IF k > index /\ k <= index + 7 THEN value[k - index] ELSE big_int.mem[k]])]

\* zero-extended 15 bytes starting at index, as a 128-bit vector
get_15_bytes__of_big_integer(big_int, index) ==
  Vec(Tup([k \in 1..8 |-> big_int.mem[index + k]]),
      Tup([k \in 1..8 |-> IF k <= 7 THEN big_int.mem[index + 8 + k] ELSE 0]))

set_15_bytes__of_big_integer(big_int, index, value) ==
  [big_int EXCEPT !.mem = Tup([k \in 1..Len(big_int.mem) |->
      IF k > index /\ k <= index + 8 THEN value.lo[k - index]
      ELSE IF k > index + 8 /\ k <= index + 15 THEN value.hi[k - index - 8]
      ELSE big_int.mem[k]])]

get_most_significant_bit(value) ==
  get_byte_value_of_big_integer(value, Len(value.mem) - 1) >= 128

clone_big_integer(og_big_integer) == og_big_integer

set_zero(value) == [sign |-> FALSE, mem |-> Zeros(Len(value.mem))]

\* returns the new destination
copy_big_integer_value_into_another(source, destination) ==
  [sign |-> source.sign,
   mem |-> Tup([k \in 1..Len(destination.mem) |->
              IF k <= min(Len(source.mem), Len(destination.mem)) THEN source.mem[k] ELSE 0])]

\* The new big_integer has (length + add_size) mod 2^64 bytes and memcpy then
\* copies og.length bytes into it.  add_size is given as the signed difference
\* it is congruent to; a negative one is the wrapped size_t, the buffer is then
\* shorter than og and the copy runs past its end (overrun).
clone_big_integer_add_size(og_big_integer, add_size) ==
  [big |-> [sign |-> og_big_integer.sign,
            mem |-> Tup([k \in 1..(Len(og_big_integer.mem) + add_size) |->
                       IF k <= Len(og_big_integer.mem) THEN og_big_integer.mem[k] ELSE 0])],
   overrun |-> add_size < 0]

\* number of iterations of for (; i + (w - 1) < length; i += w)
Chunks(length, i, w) == IF length - i >= w THEN (length - i) \div w ELSE 0

\* body of the byte-at-a-time loop: return false on a byte that is not zero
is_zero_byte_step(value, st, i) ==
  IF value.mem[i + 1] # 0 THEN [zero |-> FALSE, stop |-> TRUE] ELSE st

\* the byte-at-a-time loop from C index i on
is_zero_bytes(value, i) ==
  Loop(LAMBDA s, k: is_zero_byte_step(value, s, k), [zero |-> TRUE, stop |-> FALSE],
       i, Len(value.mem)).zero

\* body of the 7-byte loop, chunk k after C index i0
is_zero_simd7_step(value, i0, st, k) ==
  IF get_7_bytes__of_big_integer(value, i0 + 7 * k) # Zeros(8)
  THEN [zero |-> FALSE, stop |-> TRUE] ELSE st

\* body of the 15-byte loop, chunk k
is_zero_simd15_step(value, st, k) ==
  IF ~mm_testz_si128(get_15_bytes__of_big_integer(value, 15 * k))
  THEN [zero |-> FALSE, stop |-> TRUE] ELSE st

big_integer_is_zero_simd(value) ==
  With(Chunks(Len(value.mem), 0, 15), LAMBDA n15 :
    With(Loop(LAMBDA s, k : is_zero_simd15_step(value, s, k),
              [zero |-> TRUE, stop |-> FALSE], 0, n15), LAMBDA s15 :
      With(Chunks(Len(value.mem), 15 * n15, 7), LAMBDA n7 :
        With(Loop(LAMBDA s, k : is_zero_simd7_step(value, 15 * n15, s, k), s15, 0, n7),
             LAMBDA s7 :
          IF ~s15.zero THEN FALSE
          ELSE IF ~s7.zero THEN FALSE
          ELSE is_zero_bytes(value, 15 * n15 + 7 * n7)))))

\* a test that takes a zero with the sign set for a value that is not zero
big_integer_is_zero_unsigned(value, simd) == ~value.sign /\ is_zero_bytes(value, 0)

big_integer_is_zero(value, simd) ==
  IF simd THEN big_integer_is_zero_simd(value) ELSE is_zero_bytes(value, 0)

\* a negation that leaves the sign as it is
negate_big_integer_kept(value) == value

negate_big_integer(value) == [value EXCEPT !.sign = ~value.sign]

\* ------------------------------------------------------------------------
\* big_integer_arithmetic: addition and subtraction
\* ------------------------------------------------------------------------

\* body of the byte-at-a-time loop; st is [a, carry, stop]
addition_byte_step(value_b, st, i) ==
  LET a == st.a.mem[i + 1]
      res == IF i < Len(value_b.mem) THEN a + value_b.mem[i + 1] + st.carry
             ELSE a + st.carry
  IN [a |-> set_byte_value_of_big_integer(st.a, i, res), carry |-> (res \div 256) % 2,
      stop |-> FALSE]

\* the byte-at-a-time loop from C index i on, with the incoming state
addition_bytes(value_b, st, i) ==
  Loop(LAMBDA s, k: addition_byte_step(value_b, s, k), st, i, Len(st.a.mem))

big_integer_addition_sisd(value_a, value_b) ==
  With(addition_bytes(value_b, [a |-> value_a, carry |-> 0, stop |-> FALSE], 0), LAMBDA r :
    [a |-> r.a, w |-> r.carry = 1])

\* the lower lane of x, moved by 2^63 for the signed comparison:
\* _mm_sub_epi64(_mm_and_si128(x, lower64_mask), sub_mask)
lower_signed(x) == mm_sub_epi64(mm_and_lower64(x), Vec(LaneSignBit, Zeros(8)))

\* carry_happens of a 15-byte step whose sum before the carry is result1:
\* std_carry, the lower lane of the sum is below that of a or of b, or
\* max_carry, both lower lanes are all ones and a carry came in
addition_carry_happens(a_bytes, b_bytes, carry, result1) ==
  With(lower_signed(result1), LAMBDA lower_result_signed :
    \/ ~mm_testz_si128(mm_or_si128(
          mm_cmpgt_epi64(lower_signed(a_bytes), lower_result_signed),
          mm_cmpgt_epi64(lower_signed(b_bytes), lower_result_signed)))
    \/ /\ mm_and_lower64(a_bytes).lo = LaneAllOnes
       /\ mm_and_lower64(b_bytes).lo = LaneAllOnes
       /\ carry = 1)

\* one 15-byte step: the lanes are added with the incoming carry, and a carry
\* out of the lower lane is added to the upper one
addition_chunk15(a_bytes, b_bytes, carry) ==
  With(mm_add_epi64(mm_add_epi64(a_bytes, b_bytes), Vec(Lane(carry), Zeros(8))),
       LAMBDA result1 :
    With(IF addition_carry_happens(a_bytes, b_bytes, carry, result1)
         THEN mm_add_epi64(result1, Vec(Zeros(8), Lane(1)))
         ELSE result1, LAMBDA result :
      [result |-> result, carry |-> result.hi[8] % 2]))

\* a 7-byte step that does not take the incoming carry
addition_chunk7_no_carry_in(a_qword, b_qword, carry) ==
  With(LaneAdd(a_qword, b_qword), LAMBDA sum :
    [result |-> sum, carry |-> sum[8] % 2])

\* one 7-byte step
addition_chunk7(a_qword, b_qword, carry) ==
  With(LaneAdd(LaneAdd(a_qword, b_qword), Lane(carry)), LAMBDA sum :
    [result |-> sum, carry |-> sum[8] % 2])

\* body of the 7-byte loop, chunk k after C index i0
addition_simd7_step(value_b, i0, st, k) ==
  With(addition_chunk7(get_7_bytes__of_big_integer(st.a, i0 + 7 * k),
                       get_7_bytes__of_big_integer(value_b, i0 + 7 * k), st.carry),
       LAMBDA c :
    [a |-> set_7_bytes__of_big_integer(st.a, i0 + 7 * k, c.result), carry |-> c.carry,
     stop |-> FALSE])

\* body of the 15-byte loop, chunk k
addition_simd15_step(value_b, st, k) ==
  With(addition_chunk15(get_15_bytes__of_big_integer(st.a, 15 * k),
                        get_15_bytes__of_big_integer(value_b, 15 * k), st.carry),
       LAMBDA c :
    [a |-> set_15_bytes__of_big_integer(st.a, 15 * k, c.result), carry |-> c.carry,
     stop |-> FALSE])

big_integer_addition_simd(value_a, value_b) ==
  With(Chunks(min(Len(value_a.mem), Len(value_b.mem)), 0, 15), LAMBDA n15 :
    With(Loop(LAMBDA s, k : addition_simd15_step(value_b, s, k),
              [a |-> value_a, carry |-> 0, stop |-> FALSE], 0, n15), LAMBDA s15 :
      With(Chunks(min(Len(value_a.mem), Len(value_b.mem)), 15 * n15, 7), LAMBDA n7 :
        With(Loop(LAMBDA s, k : addition_simd7_step(value_b, 15 * n15, s, k), s15, 0, n7),
             LAMBDA s7 :
          With(addition_bytes(value_b, s7, 15 * n15 + 7 * n7), LAMBDA r :
            [a |-> r.a, w |-> r.carry = 1])))))

\* body of the byte-at-a-time loop; res is the uint16_t a - b - borrow
subtraction_byte_step(value_b, st, i) ==
  LET a == st.a.mem[i + 1]
      res == (IF i < Len(value_b.mem) THEN a - value_b.mem[i + 1] - st.borrow
              ELSE a - st.borrow) % 65536
  IN [a |-> set_byte_value_of_big_integer(st.a, i, res), borrow |-> (res \div 32768) % 2,
      stop |-> FALSE]

subtraction_bytes(value_b, st, i) ==
  Loop(LAMBDA s, k : subtraction_byte_step(value_b, s, k), st, i, Len(st.a.mem))

big_integer_subtraction_sisd(value_a, value_b) ==
  With(subtraction_bytes(value_b, [a |-> value_a, borrow |-> 0, stop |-> FALSE], 0),
       LAMBDA r :
    [a |-> r.a, w |-> r.borrow = 1])

\* borrow_happens of a 15-byte step whose difference before the borrow is
\* result1: std_borrow, the lower lane of the difference is above that of a,
\* or max_borrow, the lower lane of b is all ones and a borrow came in
subtraction_borrow_happens(a_bytes, b_bytes, borrow, result1) ==
  \/ ~mm_testz_si128(mm_cmpgt_epi64(lower_signed(result1), lower_signed(a_bytes)))
  \/ (mm_and_lower64(b_bytes).lo = LaneAllOnes /\ borrow = 1)

subtraction_chunk15(a_bytes, b_bytes, borrow) ==
  With(mm_sub_epi64(mm_sub_epi64(a_bytes, b_bytes), Vec(Lane(borrow), Zeros(8))),
       LAMBDA result1 :
    With(IF subtraction_borrow_happens(a_bytes, b_bytes, borrow, result1)
         THEN mm_sub_epi64(result1, Vec(Zeros(8), Lane(1)))
         ELSE result1, LAMBDA result :
      [result |-> result, borrow |-> (result.hi[8] \div 128) % 2]))

subtraction_chunk7(a_qword, b_qword, borrow) ==
  With(LaneSub(LaneSub(a_qword, b_qword), Lane(borrow)), LAMBDA res :
    [result |-> res, borrow |-> res[8] % 2])

subtraction_simd7_step(value_b, i0, st, k) ==
  With(subtraction_chunk7(get_7_bytes__of_big_integer(st.a, i0 + 7 * k),
                          get_7_bytes__of_big_integer(value_b, i0 + 7 * k), st.borrow),
       LAMBDA c :
    [a |-> set_7_bytes__of_big_integer(st.a, i0 + 7 * k, c.result), borrow |-> c.borrow,
     stop |-> FALSE])

subtraction_simd15_step(value_b, st, k) ==
  With(subtraction_chunk15(get_15_bytes__of_big_integer(st.a, 15 * k),
                           get_15_bytes__of_big_integer(value_b, 15 * k), st.borrow),
       LAMBDA c :
    [a |-> set_15_bytes__of_big_integer(st.a, 15 * k, c.result), borrow |-> c.borrow,
     stop |-> FALSE])

big_integer_subtraction_simd(value_a, value_b) ==
  With(Chunks(min(Len(value_a.mem), Len(value_b.mem)), 0, 15), LAMBDA n15 :
    With(Loop(LAMBDA s, k : subtraction_simd15_step(value_b, s, k),
              [a |-> value_a, borrow |-> 0, stop |-> FALSE], 0, n15), LAMBDA s15 :
      With(Chunks(min(Len(value_a.mem), Len(value_b.mem)), 15 * n15, 7), LAMBDA n7 :
        With(Loop(LAMBDA s, k : subtraction_simd7_step(value_b, 15 * n15, s, k), s15, 0, n7),
             LAMBDA s7 :
          With(subtraction_bytes(value_b, s7, 15 * n15 + 7 * n7), LAMBDA r :
            [a |-> r.a, w |-> r.borrow = 1])))))

\* body of the scan from the most significant byte down; st is [gt, stop]
greater_than_byte_step(a, b, st, i) ==
  LET a_len == Len(a.mem)
      b_len == Len(b.mem)
      a_byte == IF i < a_len THEN get_byte_value_of_big_integer(a, i) ELSE 0
      b_byte == IF i < b_len THEN get_byte_value_of_big_integer(b, i) ELSE 0
  IN IF i >= b_len /\ i < a_len
     THEN (IF a_byte # 0 THEN [gt |-> TRUE, stop |-> TRUE] ELSE st)
     ELSE IF i >= a_len /\ i < b_len
     THEN (IF b_byte # 0 THEN [gt |-> FALSE, stop |-> TRUE] ELSE st)
     ELSE IF a_byte = b_byte THEN st
     ELSE [gt |-> a_byte > b_byte, stop |-> TRUE]

\* both operands are non-negative at every call of the model (abort_err otherwise)
positive_big_integer_is_greater_than(a, b, simd) ==
  With(big_integer_is_zero(a, simd), LAMBDA a_zero :
    IF a_zero /\ big_integer_is_zero(b, simd) THEN FALSE
    ELSE IF a_zero /\ ~b.sign THEN FALSE
    ELSE Loop(LAMBDA s, k : greater_than_byte_step(a, b, s,
                                                   max(Len(a.mem), Len(b.mem)) - 1 - k),
              [gt |-> FALSE, stop |-> FALSE], 0, max(Len(a.mem), Len(b.mem))).gt)

RECURSIVE big_integer_addition(_, _, _), big_integer_subtraction(_, _, _)
\* an addition that leaves the sign of -(a - b) as the subtraction set it
big_integer_addition_sign_kept(value_a, value_b, simd) ==
  IF value_a.sign /\ ~value_b.sign
  THEN big_integer_subtraction([value_a EXCEPT !.sign = FALSE], value_b, simd)
  ELSE IF ~value_a.sign /\ value_b.sign
  THEN With(big_integer_subtraction(value_a, [value_b EXCEPT !.sign = FALSE], simd),
            LAMBDA r : [r EXCEPT !.b.sign = TRUE])
  ELSE With(IF simd THEN big_integer_addition_simd(value_a, value_b)
            ELSE big_integer_addition_sisd(value_a, value_b), LAMBDA r :
         [a |-> r.a, b |-> value_b, w |-> r.w, ub |-> FALSE])

\* Both return [a, b, w, ub]: the operands after the call, w when an overflow
\* warning was issued, ub when a copy ran past the end of its buffer.
big_integer_addition(value_a, value_b, simd) ==
  IF value_a.sign /\ ~value_b.sign
  THEN \* a negative; b positive (-a + b) => -(a - b)
       With(big_integer_subtraction([value_a EXCEPT !.sign = FALSE], value_b, simd),
            LAMBDA r : [r EXCEPT !.a.sign = ~r.a.sign])
  ELSE IF ~value_a.sign /\ value_b.sign
  THEN \* a positive; b negative (a + -b) => a - b, then b gets its sign back
       With(big_integer_subtraction(value_a, [value_b EXCEPT !.sign = FALSE], simd),
            LAMBDA r : [r EXCEPT !.b.sign = TRUE])
  ELSE With(IF simd THEN big_integer_addition_simd(value_a, value_b)
            ELSE big_integer_addition_sisd(value_a, value_b), LAMBDA r :
         [a |-> r.a, b |-> value_b, w |-> r.w, ub |-> FALSE])

big_integer_subtraction(value_a, value_b, simd) ==
  IF ~value_a.sign /\ value_b.sign
  THEN \* a positive; b negative (a - -b) => a + b, then b gets its sign back
       With(big_integer_addition(value_a, [value_b EXCEPT !.sign = FALSE], simd),
            LAMBDA r : [r EXCEPT !.b.sign = TRUE])
  ELSE IF value_a.sign /\ ~value_b.sign
  THEN \* a negative; b positive (-a - b) => -(a + b)
       With(big_integer_addition([value_a EXCEPT !.sign = FALSE], value_b, simd),
            LAMBDA r : [r EXCEPT !.a = negate_big_integer(r.a)])
  ELSE IF value_a.sign /\ value_b.sign
  THEN \* -a - (-b) = b - a, computed in a copy of b and moved into a
       With(clone_big_integer_add_size(value_b,
              max(0, Len(value_a.mem) - Len(value_b.mem))), LAMBDA b_copy :
         With(big_integer_subtraction([b_copy.big EXCEPT !.sign = FALSE],
                                      [value_a EXCEPT !.sign = FALSE], simd), LAMBDA r :
           [a |-> copy_big_integer_value_into_another(r.a, r.b), b |-> value_b,
            w |-> r.w, ub |-> b_copy.overrun \/ r.ub]))
  ELSE IF positive_big_integer_is_greater_than(value_b, value_a, simd)
  THEN \* a - b with a < b => -(b - a), computed in b; then b is restored
       With(big_integer_subtraction(value_b, value_a, simd), LAMBDA r :
         With(negate_big_integer(r.a), LAMBDA b_neg :
           [a |-> copy_big_integer_value_into_another(b_neg, r.b),
            b |-> copy_big_integer_value_into_another(clone_big_integer(value_b), b_neg),
            w |-> r.w, ub |-> r.ub]))
  ELSE With(IF simd THEN big_integer_subtraction_simd(value_a, value_b)
            ELSE big_integer_subtraction_sisd(value_a, value_b), LAMBDA r :
         [a |-> r.a, b |-> value_b, w |-> r.w, ub |-> FALSE])

\* body of the loop of big_integer_is_equal over the bytes of the longer
\* operand; st is [eq, stop]
is_equal_byte_step(a, b, st, k) ==
  IF k < Len(a.mem) /\ k < Len(b.mem)
  THEN IF get_byte_value_of_big_integer(a, k) # get_byte_value_of_big_integer(b, k)
       THEN [eq |-> FALSE, stop |-> TRUE] ELSE st
  ELSE IF k < Len(a.mem) /\ get_byte_value_of_big_integer(a, k) # 0
  THEN [eq |-> FALSE, stop |-> TRUE]
  ELSE IF k < Len(b.mem) /\ get_byte_value_of_big_integer(b, k) # 0
  THEN [eq |-> FALSE, stop |-> TRUE]
  ELSE st

\* an equality that compares the bytes both operands have and no others
big_integer_is_equal_common_bytes(a, b) ==
  /\ a.sign = b.sign
  /\ \A k \in 1..min(Len(a.mem), Len(b.mem)) : a.mem[k] = b.mem[k]

big_integer_is_equal(a, b) ==
  IF a.sign # b.sign THEN FALSE
  ELSE IF big_integer_is_zero_simd(a) /\ big_integer_is_zero_simd(b) THEN TRUE
  ELSE Loop(LAMBDA s, k: is_equal_byte_step(a, b, s, k),
            [eq |-> TRUE, stop |-> FALSE], 0, max(Len(a.mem), Len(b.mem))).eq

\* ------------------------------------------------------------------------
\* big_integer_arithmetic: increment and shifts
\* ------------------------------------------------------------------------

\* body of the loop of big_integer_increment; st is [value, stop]
increment_step(st, i) ==
  LET byte == get_byte_value_of_big_integer(st.value, i)
  IN IF ~st.value.sign
     THEN LET inc == byte + 1
          IN [value |-> set_byte_value_of_big_integer(st.value, i, inc),
              stop |-> inc \div 256 = 0]
     ELSE IF byte = 0 THEN st
     ELSE [st EXCEPT !.value = set_byte_value_of_big_integer(st.value, i, byte - 1)]

big_integer_increment(value) ==
  Loop(increment_step, [value |-> value, stop |-> FALSE], 0, Len(value.mem)).value

\* body of the byte-at-a-time shift loop; st is [value, carry, stop] and carry
\* is the upper half of the previous byte.  The carry left by the last byte
\* holds the bits shifted out of the value.
shl_byte_step(bit_count, st, i) ==
  With(BitOr((get_byte_value_of_big_integer(st.value, i) * Pow2(bit_count)) % 65536,
             st.carry), LAMBDA shifted :
    [value |-> set_byte_value_of_big_integer(st.value, i, shifted % 256),
     carry |-> (shifted \div 256) % 256, stop |-> FALSE])

shl_bytes(bit_count, st, i) ==
  Loop(LAMBDA s, k: shl_byte_step(bit_count, s, k), st, i, Len(st.value.mem))

big_integer_shl_bitwise_0_to_7__sisd(value, bit_count) ==
  shl_bytes(bit_count, [value |-> value, carry |-> 0, stop |-> FALSE], 0)

\* a 7-byte step that drops the bits it shifts out of its 7 bytes
shl_simd56_step_carry_dropped(bit_count, st, k) ==
  With(LaneShl(get_7_bytes__of_big_integer(st.value, 7 * k), bit_count), LAMBDA sh :
    [value |-> set_7_bytes__of_big_integer(st.value, 7 * k,
                 [sh EXCEPT ![1] = BitOr8(sh[1], st.carry), ![8] = 0]),
     carry |-> 0, stop |-> FALSE])

\* body of the 7-bytes-at-a-time loop, chunk k
shl_simd56_step(bit_count, st, k) ==
  With(LaneShl(get_7_bytes__of_big_integer(st.value, 7 * k), bit_count), LAMBDA sh :
    With(BitOr8(sh[1], st.carry), LAMBDA low :
      [value |-> set_7_bytes__of_big_integer(st.value, 7 * k,
                   [sh EXCEPT ![1] = low, ![8] = 0]),
       carry |-> sh[8], stop |-> FALSE]))

big_integer_shl_bitwise_0_to_7__simd56(value, bit_count) ==
  With(Loop(LAMBDA s, k: shl_simd56_step(bit_count, s, k),
            [value |-> value, carry |-> 0, stop |-> FALSE],
            0, Chunks(Len(value.mem), 0, 7)), LAMBDA s7 :
    shl_bytes(bit_count, s7, 7 * Chunks(Len(value.mem), 0, 7)))

\* [value, carry]: the shifted value and the bits that left it
big_integer_shl_bitwise_0_to_7(value, bit_count, simd) ==
  IF simd THEN big_integer_shl_bitwise_0_to_7__simd56(value, bit_count)
  ELSE big_integer_shl_bitwise_0_to_7__sisd(value, bit_count)

\* a byte-wise shift that leaves the value where it is
big_integer_shl_byte_wise_in_place(value, count) == value

\* count is at most the length of the value in every call of the program
big_integer_shl_byte_wise(value, count) ==
  [value EXCEPT !.mem = Tup([k \in 1..Len(value.mem) |->
      IF k <= count THEN 0 ELSE value.mem[k - count]])]

\* ------------------------------------------------------------------------
\* big_integer_arithmetic: multiplication
\* ------------------------------------------------------------------------

\* What a call reports besides its result.  w: an addition or subtraction
\* warned of an overflow; lost: a left shift moved a set bit out of its value;
\* rv: the projection's shift of remaining_value moved a set bit out of it;
\* ub: a copy or a store ran past the end of its buffer.
NoFlags == [w |-> FALSE, lost |-> FALSE, rv |-> FALSE, ub |-> FALSE]

OrFlags(f, g) ==
  [w |-> f.w \/ g.w, lost |-> f.lost \/ g.lost, rv |-> f.rv \/ g.rv, ub |-> f.ub \/ g.ub]

\* the flags of the result r of big_integer_addition or big_integer_subtraction
FlagsOf(r) == [NoFlags EXCEPT !.w = r.w, !.ub = r.ub]

LostIf(c) == [NoFlags EXCEPT !.lost = c]

\* body of the loop of big_integer_multiply_uint8; st is
\* [result, temp, to_shift, f, stop]
multiply_uint8_step(mul, simd, st, i) ==
  IF (mul \div Pow2(i)) % 2 = 1
  THEN With(IF i # 0 THEN big_integer_shl_bitwise_0_to_7(st.temp, 1 + st.to_shift, simd)
            ELSE [value |-> st.temp, carry |-> 0], LAMBDA sh :
         With(big_integer_addition(st.result, sh.value, simd), LAMBDA r :
           [result |-> r.a, temp |-> r.b,
            to_shift |-> (IF i # 0 THEN 0 ELSE st.to_shift),
            f |-> OrFlags(st.f, OrFlags(FlagsOf(r), LostIf(sh.carry # 0))),
            stop |-> FALSE]))
  ELSE IF i # 0 THEN [st EXCEPT !.to_shift = st.to_shift + 1]
  ELSE st

\* [result, temp, f]
big_integer_multiply_uint8(value, mul, result, temp, simd) ==
  With(Loop(LAMBDA s, k: multiply_uint8_step(mul, simd, s, k),
            [result |-> set_zero(result),
             temp |-> copy_big_integer_value_into_another(value, temp),
             to_shift |-> 0, f |-> NoFlags, stop |-> FALSE], 0, 8), LAMBDA r :
    [result |-> r.result, temp |-> r.temp, f |-> r.f])

\* body of the loop of big_integer_multiplication; st is [res, pp, temp, f, stop]
multiplication_step(a, b, simd, st, i) ==
  IF get_byte_value_of_big_integer(b, i) = 0 THEN st
  ELSE With(big_integer_multiply_uint8(a, get_byte_value_of_big_integer(b, i),
                                       st.pp, st.temp, simd), LAMBDA m :
         With(big_integer_addition(st.res, big_integer_shl_byte_wise(m.result, i), simd),
              LAMBDA r :
           [res |-> r.a, pp |-> r.b, temp |-> m.temp,
            f |-> OrFlags(st.f, OrFlags(m.f, FlagsOf(r))), stop |-> FALSE]))

\* the loop of big_integer_multiplication over the bytes of b: [res, pp, temp, f, stop]
multiplication_loop(a, b, res, simd) ==
  Loop(LAMBDA s, k: multiplication_step(a, b, simd, s, k),
       [res |-> res, pp |-> create_big_integer(Len(res.mem), FALSE),
        temp |-> create_big_integer(Len(a.mem) + 1, FALSE), f |-> NoFlags,
        stop |-> FALSE], 0, Len(b.mem))

\* a multiplication that gives the product the sign of a
big_integer_multiplication_sign_of_a(a, b, res, simd) ==
  With(multiplication_loop(a, b, res, simd), LAMBDA r :
    [res |-> [r.res EXCEPT !.sign = a.sign], f |-> r.f])

\* [res, f]
big_integer_multiplication(a, b, res, simd) ==
  With(multiplication_loop(a, b, res, simd), LAMBDA r :
    [res |-> [r.res EXCEPT !.sign = (a.sign /\ ~b.sign) \/ (b.sign /\ ~a.sign)],
     f |-> r.f])

\* [result, temp, f]
big_integer_multiply_int_neg256_to_256(value, mul, result, temp, simd) ==
  With(big_integer_multiply_uint8(value, abs(mul) % 256, result, temp, simd), LAMBDA m :
    [m EXCEPT !.result.sign = (value.sign /\ mul > 0) \/ (~value.sign /\ mul < 0)])

\* ------------------------------------------------------------------------
\* big_integer_arithmetic: comparison with and division by a small integer
\* ------------------------------------------------------------------------

\* body of the loop over the bytes above the first; st is [ge, stop]
greater_equal_byte_step(a, st, i) ==
  IF get_byte_value_of_big_integer(a, i) > 0 THEN [ge |-> ~a.sign, stop |-> TRUE] ELSE st

\* the casework of big_integer_greater_equal_int16 once a is known to be zero
\* or not
greater_equal_cases(a, a_zero, b) ==
  IF a_zero /\ b = 0 THEN TRUE
  ELSE IF a_zero /\ b < 0 THEN TRUE
  ELSE IF a_zero /\ b > 0 THEN FALSE
  ELSE IF a.sign /\ b >= 0 THEN FALSE
  ELSE IF ~a.sign /\ b <= 0 THEN TRUE
  ELSE IF ~a.sign /\ get_byte_value_of_big_integer(a, 0) = b THEN TRUE
  ELSE IF ~a.sign /\ get_byte_value_of_big_integer(a, 0) > b THEN TRUE
  ELSE IF a.sign /\ get_byte_value_of_big_integer(a, 0) > b THEN FALSE
  ELSE Loop(LAMBDA s, k: greater_equal_byte_step(a, s, k),
            [ge |-> a.sign, stop |-> FALSE], 1, Len(a.mem)).ge

big_integer_greater_equal_int16(a, b, simd) ==
  greater_equal_cases(a, big_integer_is_zero(a, simd), b)

\* a value that was shifted left by one bit, with bit_i in its lowest bit
or_first_byte(sh, bit_i) ==
  set_byte_value_of_big_integer(sh, 0, BitOr8(get_byte_value_of_big_integer(sh, 0), bit_i))

\* the second half of division_step: the remainder rem1 is compared with the
\* divisor, which is taken from it and recorded in the quotient when it fits
division_subtract(div, simd, st, rem1, bit_index, lost) ==
  IF big_integer_greater_equal_int16(rem1, div, simd)
  THEN With(big_integer_subtraction(rem1,
              set_byte_value_of_big_integer(create_big_integer(2, FALSE), 0, div), simd),
            LAMBDA r :
         [quotient |-> set_bit_value_of_big_integer(st.quotient, bit_index, TRUE),
          remainder |-> r.a,
          f |-> OrFlags(st.f, OrFlags(LostIf(lost), FlagsOf(r))), stop |-> FALSE])
  ELSE [quotient |-> st.quotient, remainder |-> rem1,
        f |-> OrFlags(st.f, LostIf(lost)), stop |-> FALSE]

\* body of the inner loop of big_integer_division_int9_t, bit j of byte i of
\* value; st is [quotient, remainder, f, stop]
division_step(value, div, simd, st, i, j) ==
  With(big_integer_shl_bitwise_0_to_7(st.remainder, 1, simd), LAMBDA sh :
    division_subtract(div, simd, st,
      or_first_byte(sh.value, (get_byte_value_of_big_integer(value, i) \div Pow2(j)) % 2),
      i * 8 + j, sh.carry # 0))

\* a division that leaves the quotient with the sign of the dividend
division_result_sign_kept(value, divisor, d, q, rem) ==
  [value |-> [q EXCEPT !.sign = value.sign],
   remainder16 |-> IF value.sign THEN -rem ELSE rem,
   temp_value |-> d.quotient, temp_value2 |-> d.remainder, f |-> d.f]

\* the sign and the remainder big_integer_division_int9_t gives to the
\* quotient q of the loop d
division_result(value, divisor, d, q, rem) ==
  [value |-> IF (value.sign /\ divisor > 0) \/ (~value.sign /\ divisor < 0)
             THEN [q EXCEPT !.sign = TRUE] ELSE q,
   remainder16 |-> IF value.sign THEN -rem ELSE rem,
   temp_value |-> d.quotient, temp_value2 |-> d.remainder, f |-> d.f]

\* [value, remainder16, temp_value, temp_value2, f]; divisor is never 0 here.
\* The two nested loops run as one over k = 0 .. 8 * length - 1, which visits
\* byte i = length - 1 - k / 8 and bit j = 7 - k % 8.
big_integer_division_int9_t(value, divisor, temp_value, temp_value2, simd) ==
  With(Loop(LAMBDA s, k: division_step(value, abs(divisor) % 256, simd, s,
                                       Len(value.mem) - 1 - (k \div 8), 7 - (k % 8)),
            [quotient |-> set_zero(temp_value), remainder |-> set_zero(temp_value2),
             f |-> NoFlags, stop |-> FALSE], 0, 8 * Len(value.mem)), LAMBDA d :
    division_result(value, divisor, d,
                    copy_big_integer_value_into_another(d.quotient, value),
                    get_byte_value_of_big_integer(d.remainder, 0)))

\* ------------------------------------------------------------------------
\* impl_binary_conversion: parsing a digit string into a big_integer
\* ------------------------------------------------------------------------

\* the character '-'
Minus == 45

\* the entry generate_lut leaves for the character c: the last i < alph_len
\* with alph[i] = c, and 0 (the zero-initialised table) when there is none
lut_index(alph, c, alph_len) ==
  LET hits == {i \in 0..(alph_len - 1) : alph[i + 1] = c}
  IN IF hits = {} THEN 0 ELSE CHOOSE i \in hits : \A j \in hits : j <= i

generate_lut(alph_len, alph) == [c \in 0..255 |-> lut_index(alph, c, alph_len)]

get_char_value(c, lookup) == lookup[c % 256]

\* one operand's part of the loop body: binary += current_weight * digit, which
\* gives [binary, z_temp, temp2, f]
convert_digit(current_weight, digit, binary, z_temp, temp2, simd) ==
  With(big_integer_multiply_uint8(current_weight, digit, z_temp, temp2, simd), LAMBDA m :
    With(big_integer_addition(binary, m.result, simd), LAMBDA a :
      [binary |-> a.a, z_temp |-> a.b, temp2 |-> m.temp, f |-> OrFlags(m.f, FlagsOf(a))]))

\* the part of the loop body for z1
convert_step_z1(lookup, z1, simd, st, i) ==
  IF i < Len(z1)
  THEN With(convert_digit(st.current_weight, get_char_value(z1[Len(z1) - i], lookup),
                          st.z1_binary, st.z1_temp, st.temp2, simd), LAMBDA d :
         [st EXCEPT !.z1_binary = d.binary, !.z1_temp = d.z_temp, !.temp2 = d.temp2,
                    !.f = OrFlags(st.f, d.f)])
  ELSE st

\* the part of the loop body for z2
convert_step_z2(lookup, z2, simd, st, i) ==
  IF i < Len(z2)
  THEN With(convert_digit(st.current_weight, get_char_value(z2[Len(z2) - i], lookup),
                          st.z2_binary, st.z2_temp, st.temp2, simd), LAMBDA d :
         [st EXCEPT !.z2_binary = d.binary, !.z2_temp = d.z_temp, !.temp2 = d.temp2,
                    !.f = OrFlags(st.f, d.f)])
  ELSE st

\* a loop body that leaves current_weight as it is
convert_step_weight_kept(base, simd, st) == st

\* the end of the loop body: current_weight *= base, with temp and
\* current_weight swapped
convert_step_weight(base, simd, st) ==
  With(big_integer_multiply_int_neg256_to_256(st.current_weight, base, st.temp,
                                              st.temp2, simd), LAMBDA mw :
    [st EXCEPT !.current_weight = mw.result, !.temp = st.current_weight,
               !.temp2 = mw.temp, !.f = OrFlags(st.f, mw.f)])

\* body of the loop of convert_numbers_from_any_base_into_binary; st holds the
\* big_integers the loop works on
convert_step(base, lookup, z1, z2, simd, st, i) ==
  With(convert_step_z1(lookup, z1, simd, st, i), LAMBDA s1 :
    With(convert_step_z2(lookup, z2, simd, s1, i), LAMBDA s2 :
      convert_step_weight(base, simd, s2)))

\* the big_integers the loop starts with
convert_start(z1_binary, z2_binary, weight_size) ==
  [z1_binary |-> z1_binary, z2_binary |-> z2_binary,
   z1_temp |-> create_big_integer(Len(z1_binary.mem), FALSE),
   z2_temp |-> create_big_integer(Len(z2_binary.mem), FALSE),
   current_weight |-> set_byte_value_of_big_integer(
                        create_big_integer(weight_size, FALSE), 0, 1),
   temp |-> create_big_integer(weight_size, FALSE),
   temp2 |-> create_big_integer(weight_size, FALSE),
   f |-> NoFlags, stop |-> FALSE]

\* [z1_binary, z2_binary, f, ...]
convert_numbers_from_any_base_into_binary(base, alph, z1, z2, z1_binary, z2_binary, simd) ==
  With(generate_lut(Len(alph), alph), LAMBDA lookup :
    Loop(LAMBDA s, k: convert_step(base, lookup, z1, z2, simd, s, k),
         convert_start(z1_binary, z2_binary,
           get_big_integer_min_size_exponentiation(base, max(Len(z1), Len(z2)))),
         0, max(Len(z1), Len(z2))))

\* ------------------------------------------------------------------------
\* impl_binary_conversion: projecting a big_integer into the base
\* ------------------------------------------------------------------------

\* alph[i] of the C string: the NUL at i = strlen(alph)
alph_at(alph, i) == IF i < Len(alph) THEN alph[i + 1] ELSE 0

\* a dabble_step that carries nothing into byte j + 1
dabble_carry_dropped(calc_buffer, j) == calc_buffer

\* the carry of dabble_step: byte j + 1 is incremented when it is inside
\* calc_buffer
dabble_carry(calc_buffer, j) ==
  IF j + 1 < Len(calc_buffer.mem)
  THEN set_byte_value_of_big_integer(calc_buffer, j + 1,
         get_byte_value_of_big_integer(calc_buffer, j + 1) + 1)
  ELSE calc_buffer

\* a dabble_step that adjusts no byte
dabble_step_skipped(conversion_trigger, carry_add, st, j) == st

\* body of the inner loop of the Double Dabble step; st is
\* [calc_buffer, ub, stop], ub: the carry was stored one byte past the end of
\* calc_buffer
dabble_step(conversion_trigger, carry_add, st, j) ==
  IF get_byte_value_of_big_integer(st.calc_buffer, j) >= conversion_trigger
  THEN [calc_buffer |-> dabble_carry(
                          set_byte_value_of_big_integer(st.calc_buffer, j,
                            get_byte_value_of_big_integer(st.calc_buffer, j) + carry_add), j),
        ub |-> st.ub \/ ~(j + 1 < Len(st.calc_buffer.mem)), stop |-> FALSE]
  ELSE st

\* body of the Double Dabble loop; st is [calc_buffer, remaining_value, f, stop]
double_dabble_step(conversion_trigger, carry_add, simd, st, i) ==
  With(big_integer_shl_bitwise_0_to_7(st.calc_buffer, 1, simd), LAMBDA sh :
    With(big_integer_shl_bitwise_0_to_7(st.remaining_value, 1, simd), LAMBDA rv :
      With(Loop(LAMBDA s, j: dabble_step(conversion_trigger, carry_add, s, j),
                [calc_buffer |-> or_first_byte(sh.value,
                                   IF get_most_significant_bit(st.remaining_value)
                                   THEN 1 ELSE 0),
                 ub |-> FALSE, stop |-> FALSE], 0, Len(st.calc_buffer.mem)), LAMBDA d :
        [calc_buffer |-> d.calc_buffer, remaining_value |-> rv.value,
         f |-> OrFlags(st.f, [w |-> FALSE, lost |-> sh.carry # 0, rv |-> rv.carry # 0,
                              ub |-> d.ub]),
         stop |-> FALSE])))

\* a scan that stops at the highest byte, zero or not
start_nonzero_step_highest(calc_buffer, st, i) ==
  [calc_buffer_start_nonzero |-> i, stop |-> TRUE]

\* body of the scan for the highest byte that is not zero; st is
\* [calc_buffer_start_nonzero, stop]
start_nonzero_step(calc_buffer, st, i) ==
  IF get_byte_value_of_big_integer(calc_buffer, i) # 0
  THEN [calc_buffer_start_nonzero |-> i, stop |-> TRUE]
  ELSE st

\* body of the output loop; st is [str, output_buffer_index, stop], str the
\* characters stored from the first digit on
write_digit_step(calc_buffer, alph, buffer_length, st, i) ==
  IF st.output_buffer_index >= buffer_length THEN [st EXCEPT !.stop = TRUE]
  ELSE [str |-> Append(st.str, alph_at(alph, get_byte_value_of_big_integer(calc_buffer, i))),
        output_buffer_index |-> st.output_buffer_index + 1, stop |-> FALSE]

\* a write_nul that returns to the caller whatever output_buffer_index is
write_nul_returns(sign, buffer_length, out, f) ==
  [str |-> (IF sign THEN <<Minus>> ELSE <<>>) \o out.str,
   top |-> IF out.output_buffer_index >= buffer_length
           THEN (IF sign THEN 1 ELSE 0) + Len(out.str) - 1
           ELSE out.output_buffer_index,
   exit |-> FALSE,
   f |-> f]

\* the end of the projection: the NUL is stored at output_buffer_index, unless
\* that is outside the buffer ("Writing NULL-byte exceeds buffer length", then
\* exit(5))
write_nul(sign, buffer_length, out, f) ==
  [str |-> (IF sign THEN <<Minus>> ELSE <<>>) \o out.str,
   top |-> IF out.output_buffer_index >= buffer_length
           THEN (IF sign THEN 1 ELSE 0) + Len(out.str) - 1
           ELSE out.output_buffer_index,
   exit |-> out.output_buffer_index >= buffer_length,
   f |-> f]

\* The result of a projection.  str: the string left in the buffer (without its
\* NUL); top: the highest buffer index stored to; exit: the call ended the
\* process (exit or abort_err) instead of returning; f: the flags.
to_base_positive(value, base, alph, buffer_length, simd) ==
  With(Loop(LAMBDA s, k: double_dabble_step(base % 256, (256 - base) % 256, simd, s, k),
            [calc_buffer |-> create_big_integer(buffer_length, FALSE),
             remaining_value |-> clone_big_integer(value),
             f |-> NoFlags, stop |-> FALSE], 0, Len(value.mem) * 8), LAMBDA dd :
    With(Loop(LAMBDA s, k: start_nonzero_step(dd.calc_buffer, s, buffer_length - 1 - k),
              [calc_buffer_start_nonzero |-> 0, stop |-> FALSE], 0, buffer_length)
           .calc_buffer_start_nonzero, LAMBDA first :
      write_nul(value.sign, buffer_length,
        Loop(LAMBDA s, k: write_digit_step(dd.calc_buffer, alph, buffer_length, s, first - k),
             [str |-> <<>>, output_buffer_index |-> (IF value.sign THEN 1 ELSE 0),
              stop |-> FALSE], 0, first + 1),
        dd.f)))

\* the end of the body of the division loop, with the remainder brought into
\* 0 .. |base| - 1 and the quotient v
to_base_negative_digit(alph, simd, st, d, remainder, v) ==
  [value |-> v, temp |-> d.temp_value, temp2 |-> d.temp_value2,
   digits |-> IF remainder < 0 \/ remainder >= Len(alph) THEN st.digits
              ELSE Append(st.digits, alph_at(alph, remainder)),
   exit |-> remainder < 0 \/ remainder >= Len(alph), f |-> OrFlags(st.f, d.f),
   stop |-> remainder < 0 \/ remainder >= Len(alph) \/ big_integer_is_zero(v, simd)]

\* a body of the division loop that leaves the quotient as the division gave it
to_base_negative_step_quotient_kept(base, alph, simd, st, index) ==
  With(big_integer_division_int9_t(st.value, base, st.temp, st.temp2, simd), LAMBDA d :
    to_base_negative_digit(alph, simd, st, d,
      IF d.remainder16 < 0 THEN d.remainder16 + abs(base) ELSE d.remainder16,
      d.value))

\* body of the division loop; st is [value, temp, temp2, digits, exit, f, stop],
\* digits the characters stored so far, least significant first
to_base_negative_step(base, alph, simd, st, index) ==
  With(big_integer_division_int9_t(st.value, base, st.temp, st.temp2, simd), LAMBDA d :
    to_base_negative_digit(alph, simd, st, d,
      IF d.remainder16 < 0 THEN d.remainder16 + abs(base) ELSE d.remainder16,
      IF d.remainder16 < 0 THEN big_integer_increment(d.value) ELSE d.value))

\* the digits as the division loop stored them, least significant first
reverse_skipped(s) == s

\* the swap loop, which leaves the characters in the opposite order
reverse(s) == Tup([k \in 1..Len(s) |-> s[Len(s) + 1 - k]])

\* the end of the negative projection: r is the state the division loop left
\* and index the position of its last digit.  The swap loop aborts when its
\* upper index is not below buffer_length.
to_base_negative_result(buffer_length, r, index) ==
  [str |-> IF r.exit \/ (index > 0 /\ index >= buffer_length) THEN r.digits
           ELSE reverse(r.digits),
   top |-> IF r.exit THEN index ELSE index + 1,
   exit |-> r.exit \/ (index > 0 /\ index >= buffer_length),
   f |-> r.f]

\* The while loop ends when value is zero; a value of n bytes is zero after at
\* most 8 * n + 4 divisions by a base of magnitude 2 or more.
to_base_negative(value, base, alph, buffer_length, simd) ==
  IF big_integer_is_zero(value, simd)
  THEN [str |-> <<alph_at(alph, 0)>>, top |-> 1, exit |-> FALSE, f |-> NoFlags]
  ELSE With(Loop(LAMBDA s, k: to_base_negative_step(base, alph, simd, s, k),
                 [value |-> value,
                  temp |-> create_big_integer(Len(value.mem), FALSE),
                  temp2 |-> create_big_integer(Len(value.mem), FALSE),
                  digits |-> <<>>, exit |-> FALSE, f |-> NoFlags, stop |-> FALSE],
                 0, 8 * Len(value.mem) + 4), LAMBDA r :
         to_base_negative_result(buffer_length, r, Len(r.digits) - 1))

convert_big_integer_to_any_base(value, base, alph, buffer_length, simd) ==
  IF base > 0 THEN to_base_positive(value, base, alph, buffer_length, simd)
  ELSE to_base_negative(value, base, alph, buffer_length, simd)

\* ------------------------------------------------------------------------
\* impl_binary_conversion: the entry point
\* ------------------------------------------------------------------------

\* the characters '+', '-' and '*' of op
OpAdd == 43

OpSub == 45

OpMul == 42

\* the switch on op: [res, f]
arith_op_switch(op, z1_binary, z2_binary, simd) ==
  IF op = OpAdd
  THEN With(big_integer_addition(z1_binary, z2_binary, simd), LAMBDA r :
         [res |-> r.a, f |-> FlagsOf(r)])
  ELSE IF op = OpSub
  THEN With(big_integer_subtraction(z1_binary, z2_binary, simd), LAMBDA r :
         [res |-> r.a, f |-> FlagsOf(r)])
  ELSE big_integer_multiplication(z1_binary, z2_binary,
         create_big_integer(Len(z1_binary.mem) + Len(z2_binary.mem), FALSE), simd)

\* the length of the buffer the result is projected into
arith_op_result_length(base, z1_length, z2_length, op) ==
  IF op = OpAdd THEN max(z1_length, z2_length) + 2 + (IF base < 0 THEN 1 ELSE 0)
  ELSE IF op = OpSub THEN max(z1_length, z2_length) + 3
  ELSE max(z1_length, z2_length) * 2 + 1

\* a zero result loses its sign
arith_op_normalised(res, simd) ==
  IF big_integer_is_zero(res, simd) THEN [res EXCEPT !.sign = FALSE] ELSE res

\* the operand conv left, with the sign of its string
arith_op_signed(base, z, binary) ==
  IF base > 1 /\ z[1] = Minus THEN [binary EXCEPT !.sign = TRUE] ELSE binary

\* [str, top, exit, f]: the string written to result, the highest index of
\* result stored to, whether the call ended the process, and the flags
arith_op_any_base__binary_conversion(base, alph, z1, z2, op, simd) ==
  With(convert_numbers_from_any_base_into_binary(base, alph, z1, z2,
         create_big_integer(
           IF op = OpAdd \/ op = OpSub
           THEN max(get_big_integer_min_size(base, Len(z1)),
                    get_big_integer_min_size(base, Len(z2))) + 1
           ELSE get_big_integer_min_size(base, Len(z1)), FALSE),
         create_big_integer(get_big_integer_min_size(base, Len(z2)), FALSE), simd),
       LAMBDA conv :
    With(arith_op_switch(op, arith_op_signed(base, z1, conv.z1_binary),
                         arith_op_signed(base, z2, conv.z2_binary), simd), LAMBDA r :
      With(convert_big_integer_to_any_base(arith_op_normalised(r.res, simd), base, alph,
             arith_op_result_length(base, Len(z1), Len(z2), op), simd), LAMBDA out :
        [out EXCEPT !.f = OrFlags(conv.f, OrFlags(r.f, out.f))])))

arith_op_any_base__binary_conversion__simd(base, alph, z1, z2, op) ==
  arith_op_any_base__binary_conversion(base, alph, z1, z2, op, TRUE)

arith_op_any_base__binary_conversion__sisd(base, alph, z1, z2, op) ==
  arith_op_any_base__binary_conversion(base, alph, z1, z2, op, FALSE)

\* ------------------------------------------------------------------------
\* util: the result buffer main allocates
\* ------------------------------------------------------------------------

max_chars(z1, z2) == IF Len(z1) > Len(z2) THEN Len(z1) ELSE Len(z2)

max_needed_chars_mul(z1, z2) == max_chars(z1, z2) * 2 + 1

max_needed_chars_add_sub(z1, z2) == max_chars(z1, z2) + 2

\* ------------------------------------------------------------------------
\* impl_naive: digit-wise arithmetic on the strings
\* ------------------------------------------------------------------------

\* body of the digit loop of add_sub_unsigned; st is [digits, carry, stop],
\* digits the characters stored so far, least significant first.  The loop is
\* left when both numbers are used up and no carry is pending.
add_sub_step(add, base, alph, lut, z1, z2, st, k) ==
  LET carry_offset == IF base < 0 THEN -1 ELSE 1
      base_abs == abs(base)
      a_len == Len(z1)
      b_len == Len(z2)
      a == IF k >= a_len THEN alph_at(alph, 0) ELSE z1[a_len - k]
      b == IF k >= b_len THEN alph_at(alph, 0) ELSE z2[b_len - k]
      a_idx == lut[a]
      b_idx == lut[b]
      sum_idx == (IF add THEN a_idx + b_idx ELSE a_idx - b_idx) + st.carry
  IN IF ~(k < a_len \/ k < b_len \/ st.carry # 0) THEN [st EXCEPT !.stop = TRUE]
     ELSE IF sum_idx >= base_abs
     THEN [digits |-> Append(st.digits, alph_at(alph, sum_idx - base_abs)),
           carry |-> carry_offset, stop |-> FALSE]
     ELSE IF sum_idx < 0
     THEN [digits |-> Append(st.digits, alph_at(alph, sum_idx + base_abs)),
           carry |-> -carry_offset, stop |-> FALSE]
     ELSE [digits |-> Append(st.digits, alph_at(alph, sum_idx)), carry |-> 0,
           stop |-> FALSE]

\* the number of characters the loop "strip leading zeros" leaves of digits
stripped_length(digits, zero) ==
  LET nonzero == {k \in 1..Len(digits) : digits[k] # zero}
  IN IF nonzero = {} THEN 1 ELSE CHOOSE k \in nonzero : \A j \in nonzero : j <= k

\* the swap loop that reverses the string
reverse_string(s) == Tup([k \in 1..Len(s) |-> s[Len(s) + 1 - k]])

\* the end of add_sub_unsigned: written characters were stored by the digit
\* loop and kept of them are left by the loop that strips the leading zeros;
\* the sign is appended and the string reversed
add_sub_result(negate, zero, written, kept) ==
  With(IF negate /\ kept[Len(kept)] # zero THEN Append(kept, Minus) ELSE kept,
       LAMBDA signed :
    [str |-> reverse_string(signed),
     top |-> IF Len(signed) > written - 1 THEN Len(signed) ELSE written - 1])

\* [str, top]: the string left in result and the highest index stored to.
\* The digit loop runs at most three times after the longer number is used up.
add_sub_unsigned(add, negate, base, alph, z1, z2) ==
  With(generate_lut(abs(base), alph), LAMBDA lut :
    With(Loop(LAMBDA s, k: add_sub_step(add, base, alph, lut, z1, z2, s, k),
              [digits |-> <<>>, carry |-> 0, stop |-> FALSE],
              0, max_chars(z1, z2) + 4).digits, LAMBDA digits :
      add_sub_result(negate, alph_at(alph, 0), Len(digits),
                     SubSeq(digits, 1, stripped_length(digits, alph_at(alph, 0))))))

\* body of the do-while loop of cmp_unsigned_pos_base; st is [cmp, stop]
cmp_step(lut, z1, z2, st, i) ==
  IF lut[z1[i + 1]] < lut[z2[i + 1]] THEN [cmp |-> -1, stop |-> TRUE]
  ELSE IF lut[z1[i + 1]] > lut[z2[i + 1]] THEN [cmp |-> 1, stop |-> TRUE]
  ELSE st

cmp_unsigned_pos_base(base, alph, z1, z2) ==
  IF Len(z1) < Len(z2) THEN -1
  ELSE IF Len(z1) > Len(z2) THEN 1
  ELSE With(generate_lut(base, alph), LAMBDA lut :
         Loop(LAMBDA s, k: cmp_step(lut, z1, z2, s, k), [cmp |-> 0, stop |-> FALSE],
              0, Len(z1)).cmp)

sub_unsigned_to_signed(base, alph, z1, z2) ==
  IF cmp_unsigned_pos_base(base, alph, z1, z2) < 0
  THEN add_sub_unsigned(FALSE, TRUE, base, alph, z2, z1)
  ELSE add_sub_unsigned(FALSE, FALSE, base, alph, z1, z2)

\* body of the digit loop of mul_unsigned_and_shift_left; st is
\* [digits, carry, stop].  The two inner loops bring prod_idx into
\* 0 .. base_abs - 1 and count the carry: they leave prod_idx mod base_abs and
\* carry_offset times the floored quotient.
mul_step(base, alph, lut, z1, b_idx, st, k) ==
  LET carry_offset == IF base < 0 THEN -1 ELSE 1
      base_abs == abs(base)
      a_len == Len(z1)
      a == IF k >= a_len THEN alph_at(alph, 0) ELSE z1[a_len - k]
      a_idx == lut[a]
      prod_idx == a_idx * b_idx + st.carry
  IN IF ~(k < a_len \/ st.carry # 0) THEN [st EXCEPT !.stop = TRUE]
     ELSE IF prod_idx >= base_abs \/ prod_idx < 0
     THEN [digits |-> Append(st.digits, alph_at(alph, prod_idx % base_abs)),
           carry |-> carry_offset * (prod_idx \div base_abs), stop |-> FALSE]
     ELSE [digits |-> Append(st.digits, alph_at(alph, prod_idx)), carry |-> 0,
           stop |-> FALSE]

\* the end of mul_unsigned_and_shift_left: the digits are reversed and shift
\* zero characters appended
mul_result(str, written) ==
  [str |-> str, top |-> IF Len(str) > written - 1 THEN Len(str) ELSE written - 1]

\* [str, top]; z2 is the digit character
mul_unsigned_and_shift_left(shift, base, alph, z1, z2) ==
  With(generate_lut(abs(base), alph), LAMBDA lut :
    With(Loop(LAMBDA s, k: mul_step(base, alph, lut, z1, lut[z2], s, k),
              [digits |-> <<>>, carry |-> 0, stop |-> FALSE], 0, Len(z1) + 4).digits,
         LAMBDA digits :
      mul_result(reverse_string(SubSeq(digits, 1,
                                       stripped_length(digits, alph_at(alph, 0))))
                   \o Tup([k \in 1..shift |-> alph_at(alph, 0)]),
                 Len(digits))))

\* body of the loop of mul_unsigned over the digits of the shorter number b,
\* the last one first; st is [tmp_result_1, top, stop], top the highest index
\* stored to in a temporary buffer
mul_unsigned_step(base, alph, a, b, st, i) ==
  With(mul_unsigned_and_shift_left(i, base, alph, a, b[Len(b) - i]), LAMBDA m :
    With(add_sub_unsigned(TRUE, FALSE, base, alph, st.tmp_result_1, m.str), LAMBDA s :
      [tmp_result_1 |-> s.str, top |-> max(st.top, max(m.top, s.top)), stop |-> FALSE]))

\* the end of mul_unsigned, after the loop left r: the product with the first
\* digit of b is added into result, with the sign
mul_unsigned_last(negate, base, alph, a, b, max_shift, buffer_size, r) ==
  With(mul_unsigned_and_shift_left(max_shift, base, alph, a, b[Len(b) - max_shift]),
       LAMBDA m :
    With(add_sub_unsigned(TRUE, negate, base, alph, r.tmp_result_1, m.str), LAMBDA s :
      [str |-> s.str, top |-> s.top, ub |-> max(r.top, m.top) >= buffer_size]))

\* the two numbers of mul_unsigned: a is the longer one and b the other
mul_unsigned_ordered(negate, base, alph, a, b, buffer_size) ==
  mul_unsigned_last(negate, base, alph, a, b, Len(b) - 1, buffer_size,
    Loop(LAMBDA s, k: mul_unsigned_step(base, alph, a, b, s, k),
         [tmp_result_1 |-> <<alph_at(alph, 0)>>, top |-> 1, stop |-> FALSE],
         0, Len(b) - 1))

\* [str, top, ub]; ub: a temporary buffer of max_needed_chars_mul + 1 bytes was
\* written past its end
mul_unsigned(negate, base, alph, z1, z2) ==
  mul_unsigned_ordered(negate, base, alph,
                       IF Len(z2) <= Len(z1) THEN z1 ELSE z2,
                       IF Len(z2) <= Len(z1) THEN z2 ELSE z1,
                       max_needed_chars_mul(z1, z2) + 1)

\* TRUE when z has no sign
strip_sign(z) == z[1] # Minus

\* the string strip_sign leaves
strip_sign_rest(z) == IF z[1] = Minus THEN SubSeq(z, 2, Len(z)) ELSE z

\* the operand with its leading zero characters kept
strip_zeroes_kept(z, zero) == z

\* the string left after the leading zero characters that are not the last
\* character
strip_zeroes(z, zero) ==
  LET nonzero == {k \in 1..Len(z) : z[k] # zero}
      first == IF nonzero = {} THEN Len(z)
               ELSE CHOOSE k \in nonzero : \A j \in nonzero : k <= j
  IN SubSeq(z, first, Len(z))

\* the result of a function that has no temporary buffer
plain(r) == [str |-> r.str, top |-> r.top, ub |-> FALSE]

\* the casework of impl_naive on the numbers n1, n2 without leading zeros
\* (negative base) and p1, p2 without sign and leading zeros (positive base)
impl_naive_cases(base, alph, n1, n2, p1, p2, z1_pos, z2_pos, op) ==
  IF base < 0
  THEN IF op = OpAdd THEN plain(add_sub_unsigned(TRUE, FALSE, base, alph, n1, n2))
       ELSE IF op = OpSub THEN plain(add_sub_unsigned(FALSE, FALSE, base, alph, n1, n2))
       ELSE mul_unsigned(FALSE, base, alph, n1, n2)
  ELSE IF op = OpAdd
  THEN IF z1_pos /\ z2_pos THEN plain(add_sub_unsigned(TRUE, FALSE, base, alph, p1, p2))
       ELSE IF z1_pos THEN plain(sub_unsigned_to_signed(base, alph, p1, p2))
       ELSE IF z2_pos THEN plain(sub_unsigned_to_signed(base, alph, p2, p1))
       ELSE plain(add_sub_unsigned(TRUE, TRUE, base, alph, p1, p2))
  ELSE IF op = OpSub
  THEN IF z1_pos /\ z2_pos THEN plain(sub_unsigned_to_signed(base, alph, p1, p2))
       ELSE IF z1_pos THEN plain(add_sub_unsigned(TRUE, FALSE, base, alph, p1, p2))
       ELSE IF z2_pos THEN plain(add_sub_unsigned(TRUE, TRUE, base, alph, p1, p2))
       ELSE plain(sub_unsigned_to_signed(base, alph, p2, p1))
  ELSE IF z1_pos # z2_pos THEN mul_unsigned(TRUE, base, alph, p1, p2)
  ELSE mul_unsigned(FALSE, base, alph, p1, p2)

\* [str, top, ub]
impl_naive(base, alph, z1, z2, op) ==
  impl_naive_cases(base, alph,
    strip_zeroes(z1, alph_at(alph, 0)), strip_zeroes(z2, alph_at(alph, 0)),
    strip_zeroes(strip_sign_rest(z1), alph_at(alph, 0)),
    strip_zeroes(strip_sign_rest(z2), alph_at(alph, 0)),
    strip_sign(z1), strip_sign(z2), op)

\* ------------------------------------------------------------------------
\* impl_tests: the executor that runs every implementation on one testcase
\* ------------------------------------------------------------------------

VARIABLES
  testcase,  \* the inputs of the run: [base, alph, z1, z2, op, max_len] of
             \* test_impls_compare_executor, the operands [a, b, op] of the binary
             \* arithmetic, or [base, alph, z, simd] of a conversion
  i,         \* the index of the next call
  res_bufs,  \* what each call left behind
  passed     \* "running", then the verdict, "done", or "exited"

vars == <<testcase, i, res_bufs, passed>>

\* the alphabet the testcases of a base use: the default digits up to base 10,
\* letters for base -10, and 128 consecutive characters from '0' on
Alph(base) ==
  IF base = -10 THEN Tup([k \in 1..10 |-> 96 + k])
  ELSE Tup([k \in 1..abs(base) |-> 47 + k])

\* the digit values the operands are built from: the lowest and the highest
DigitValues(base) == {0, abs(base) - 1}

\* all strings of exactly n digit characters
DigitStrings(base, n) ==
  {Tup(f) : f \in [1..n -> {Alph(base)[d + 1] : d \in DigitValues(base)}]}

\* the operands of a base: 1 to MaxDigits digits, and the same with a sign when the
\* base is positive
Operands(base) ==
  LET unsigned == UNION {DigitStrings(base, n) : n \in 1..MaxDigits}
  IN IF base > 0 THEN unsigned \cup {<<Minus>> \o z : z \in unsigned} ELSE unsigned

\* a long operand: n times the digit d
Repeated(base, n, d) == Tup([k \in 1..n |-> Alph(base)[d + 1]])

\* a negative operand of LongDigits digits, which takes the big integers through
\* the 15-byte steps, and a positive one of half as many digits, which takes them
\* through the 7-byte steps
LongOperands(base) ==
  {<<Minus>> \o Repeated(base, LongDigits, abs(base) - 1),
   Repeated(base, LongDigits \div 2, abs(base) - 1)}

ShortBases == {2, 10, -2, -10}

Ops == {OpAdd, OpSub, OpMul}

\* the testcases of one base with the operands Z
TestcasesOf(b, Z, max_len) ==
  {[base |-> b, alph |-> Alph(b), z1 |-> z1, z2 |-> z2, op |-> op, max_len |-> max_len] :
     z1 \in Z, z2 \in Z, op \in Ops}

Testcases ==
  UNION {TestcasesOf(b, Operands(b), MaxDigits + 1) : b \in ShortBases}
  \cup TestcasesOf(LongBase, LongOperands(LongBase), LongDigits + 1)

\* a result buffer no implementation has written yet
Unwritten == [str |-> <<>>, top |-> -1, exit |-> FALSE, f |-> NoFlags]

\* What a call can leave behind.  A call that ran past the end of a buffer has
\* undefined behaviour: it may return what the stores within bounds give, it may
\* return with the result overwritten, or it may end the process.
Outcomes(r) ==
  IF r.f.ub
  THEN {r, [r EXCEPT !.str = <<>>], [r EXCEPT !.exit = TRUE]}
  ELSE {r}

\* the result of impl_naive as a result buffer
naive_result(r) == [str |-> r.str, top |-> r.top, exit |-> FALSE,
                    f |-> [NoFlags EXCEPT !.ub = r.ub]]

\* strncmp(s1, s2, n) == 0 on NUL-terminated strings
strncmp_equal(s1, s2, n) ==
  SubSeq(Append(s1, 0), 1, min(n, Len(s1) + 1)) = SubSeq(Append(s2, 0), 1, min(n, Len(s2) + 1))

Init ==
  /\ testcase \in Testcases
  /\ i = 0
  /\ res_bufs = <<Unwritten, Unwritten, Unwritten>>
  /\ passed = "running"

\* the call of implementations[i].func; a call that ended the process leaves
\* the executor there
Call(r) ==
  \E out \in Outcomes(r) :
    /\ res_bufs' = [res_bufs EXCEPT ![i + 1] = out]
    /\ i' = IF out.exit THEN i ELSE i + 1
    /\ passed' = IF out.exit THEN "exited" ELSE passed
    /\ UNCHANGED testcase

\* implementations[0]: the binary conversion implementation (SIMD)
CallSimd ==
  /\ passed = "running"
  /\ i = 0
  /\ Call(arith_op_any_base__binary_conversion__simd(testcase.base, testcase.alph,
                                                     testcase.z1, testcase.z2, testcase.op))

\* implementations[1]: the binary conversion implementation (SISD)
CallSisd ==
  /\ passed = "running"
  /\ i = 1
  /\ Call(arith_op_any_base__binary_conversion__sisd(testcase.base, testcase.alph,
                                                     testcase.z1, testcase.z2, testcase.op))

\* implementations[2]: the naive implementation
CallNaive ==
  /\ passed = "running"
  /\ i = 2
  /\ Call(naive_result(impl_naive(testcase.base, testcase.alph, testcase.z1, testcase.z2,
                                  testcase.op)))

\* the second loop of the executor: every result against that of implementations[0]
Compare ==
  /\ passed = "running"
  /\ i = 3
  /\ passed' = IF \A k \in 2..3 : strncmp_equal(res_bufs[1].str, res_bufs[k].str,
                                                testcase.max_len)
               THEN "true" ELSE "false"
  /\ UNCHANGED <<testcase, i, res_bufs>>

Next == CallSimd \/ CallSisd \/ CallNaive \/ Compare

Spec == Init /\ [][Next]_vars
\* ------------------------------------------------------------------------
\* big_integer_addition and big_integer_subtraction on operands of all lengths,
\* with and without SIMD
\* ------------------------------------------------------------------------

\* lengths that end in the 1-byte loop, in a 7-byte step and in a 15-byte step,
\* with and without bytes left over
AddSubLengths == {1, 7, 8, 15, 16, 23}

\* the magnitudes of n bytes: zero, all bits set, 1, the highest byte 1, and all
\* bits set below a highest byte of zero
Magnitudes(n) ==
  {Zeros(n),
   Tup([k \in 1..n |-> 255]),
   Tup([k \in 1..n |-> IF k = 1 THEN 1 ELSE 0]),
   Tup([k \in 1..n |-> IF k = n THEN 1 ELSE 0]),
   Tup([k \in 1..n |-> IF k = n THEN 0 ELSE 255])}

BigIntegers ==
  {create_big_integer_of_bytes(m, sign) :
     m \in UNION {Magnitudes(n) : n \in AddSubLengths}, sign \in BOOLEAN}

AddSubTestcases == [a : BigIntegers, b : BigIntegers, op : {OpAdd, OpSub}]

\* nothing has run yet
NotRun == [a |-> <<>>, b |-> <<>>, exit |-> FALSE, w |-> FALSE, ub |-> FALSE]

\* What a call can leave in a and b.  A call that copied past the end of a buffer
\* has undefined behaviour: it may return what the stores within bounds give, it
\* may return with the bytes of a or of b overwritten, or it may end the process.
AddSubOutcomes(r) ==
  IF r.ub
  THEN {[a |-> r.a, b |-> r.b, exit |-> FALSE, w |-> r.w, ub |-> TRUE],
        [a |-> set_zero(r.a), b |-> r.b, exit |-> FALSE, w |-> r.w, ub |-> TRUE],
        [a |-> r.a, b |-> set_zero(r.b), exit |-> FALSE, w |-> r.w, ub |-> TRUE],
        [a |-> r.a, b |-> r.b, exit |-> TRUE, w |-> r.w, ub |-> TRUE]}
  ELSE {[a |-> r.a, b |-> r.b, exit |-> FALSE, w |-> r.w, ub |-> FALSE]}

\* the call the operator of the testcase selects
add_sub(t, simd) ==
  IF t.op = OpAdd THEN big_integer_addition(t.a, t.b, simd)
  ELSE big_integer_subtraction(t.a, t.b, simd)

InitAddSub ==
  /\ testcase \in AddSubTestcases
  /\ i = 0
  /\ res_bufs = <<NotRun, NotRun>>
  /\ passed = "running"

\* the operation with simd = true
AddSubSimd ==
  /\ passed = "running"
  /\ i = 0
  /\ \E out \in AddSubOutcomes(add_sub(testcase, TRUE)) :
       res_bufs' = [res_bufs EXCEPT ![1] = out]
  /\ i' = 1
  /\ UNCHANGED <<testcase, passed>>

\* the operation with simd = false, on the same operands
AddSubSisd ==
  /\ passed = "running"
  /\ i = 1
  /\ \E out \in AddSubOutcomes(add_sub(testcase, FALSE)) :
       res_bufs' = [res_bufs EXCEPT ![2] = out]
  /\ i' = 2
  /\ passed' = "done"
  /\ UNCHANGED testcase

NextAddSub == AddSubSimd \/ AddSubSisd

SpecAddSub == InitAddSub /\ [][NextAddSub]_vars

\* ------------------------------------------------------------------------
\* Parsing a digit string and projecting the big_integer again
\* ------------------------------------------------------------------------

\* the digit strings of the conversions, with either setting of simd
CodecTestcases ==
  UNION {[base : {b}, alph : {Alph(b)}, z : Operands(b), simd : BOOLEAN] : b \in ShortBases}
  \cup [base : {LongBase}, alph : {Alph(LongBase)}, z : LongOperands(LongBase),
        simd : BOOLEAN]

\* the parsing of arith_op_any_base__binary_conversion for one operand: sizing,
\* convert_numbers_from_any_base_into_binary, then the sign for a leading '-'
parse(base, alph, z, simd) ==
  With(convert_numbers_from_any_base_into_binary(base, alph, z, z,
         create_big_integer(get_big_integer_min_size(base, Len(z)), FALSE),
         create_big_integer(get_big_integer_min_size(base, Len(z)), FALSE), simd),
       LAMBDA conv :
    [big |-> arith_op_signed(base, z, conv.z1_binary), f |-> conv.f])

\* nothing parsed yet
Unparsed == [big |-> create_big_integer(0, FALSE), f |-> NoFlags]

InitCodec ==
  /\ testcase \in CodecTestcases
  /\ i = 0
  /\ res_bufs = <<Unparsed, Unwritten>>
  /\ passed = "running"

\* the digit string becomes a big_integer
Parse ==
  /\ passed = "running"
  /\ i = 0
  /\ res_bufs' = [res_bufs EXCEPT
                    ![1] = parse(testcase.base, testcase.alph, testcase.z, testcase.simd)]
  /\ i' = 1
  /\ UNCHANGED <<testcase, passed>>

\* the big_integer is written to a buffer that holds the digit string, a sign
\* and the NUL
Project ==
  /\ passed = "running"
  /\ i = 1
  /\ \E out \in Outcomes(convert_big_integer_to_any_base(res_bufs[1].big, testcase.base,
                           testcase.alph, Len(testcase.z) + 2, testcase.simd)) :
       /\ res_bufs' = [res_bufs EXCEPT ![2] = out]
       /\ passed' = IF out.exit THEN "exited" ELSE "done"
  /\ i' = 2
  /\ UNCHANGED testcase

NextCodec == Parse \/ Project

SpecCodec == InitCodec /\ [][NextCodec]_vars

\* ------------------------------------------------------------------------
\* Properties of the entry points
\* ------------------------------------------------------------------------

\* implementations[k - 1] has been called
Called(k) == res_bufs[k] # Unwritten

\* the digit value of the character c, -1 when c is no digit of the base
digit_of(base, alph, c) ==
  LET ds == {d \in 0..(abs(base) - 1) : alph[d + 1] = c}
  IN IF ds = {} THEN -1 ELSE CHOOSE d \in ds : TRUE

\* the sum of digit_k * base^k of a string of digits, most significant first
RECURSIVE ValueOf(_, _, _)
ValueOf(base, alph, digits) ==
  IF digits = <<>> THEN 0
  ELSE base * ValueOf(base, alph, SubSeq(digits, 1, Len(digits) - 1))
       + digit_of(base, alph, digits[Len(digits)])

\* value(z): a leading '-' negates in a positive base
Value(base, alph, z) ==
  IF base > 0 /\ z[1] = Minus THEN -ValueOf(base, alph, Tail(z))
  ELSE ValueOf(base, alph, z)

\* value(z1) op value(z2)
Exact(t) ==
  LET v1 == Value(t.base, t.alph, t.z1)
      v2 == Value(t.base, t.alph, t.z2)
  IN IF t.op = OpAdd THEN v1 + v2 ELSE IF t.op = OpSub THEN v1 - v2 ELSE v1 * v2

\* the testcases whose exact result is far inside the integers of the checker
Fits(t) == binary_logarithm_8bit_abs_ceil(t.base) * (Len(t.z1) + Len(t.z2)) <= 28

\* s is digits of the base only, the first one not the zero digit unless it is
\* the only one
PlainDigits(base, alph, s) ==
  /\ s # <<>>
  /\ \A k \in 1..Len(s) : digit_of(base, alph, s[k]) >= 0
  /\ Len(s) > 1 => s[1] # alph[1]

\* C1: in a positive base both binary-conversion entry points return with the
\* canonical representation of value(z1) op value(z2) in the buffer: a '-'
\* exactly when the result is below zero, then the digits of its magnitude with
\* no leading zero digit, then the NUL.
C1_PositiveBaseCanonical ==
  \A k \in 1..2 :
    (Called(k) /\ testcase.base > 0 /\ Fits(testcase)) =>
      LET r == res_bufs[k]
          v == Exact(testcase)
          negative == r.str # <<>> /\ r.str[1] = Minus
          digits == IF negative THEN Tail(r.str) ELSE r.str
      IN /\ ~r.exit
         /\ negative <=> v < 0
         /\ PlainDigits(testcase.base, testcase.alph, digits)
         /\ ValueOf(testcase.base, testcase.alph, digits) = abs(v)
         /\ r.top = Len(r.str)

\* "-19" - "9" in base 10 has left "-28" in the buffer of the SISD entry point
C1_Witness ==
  /\ testcase.base = 10 /\ testcase.op = OpSub
  /\ testcase.z1 = <<45, 57, 48>> /\ testcase.z2 = <<57>>
  /\ Called(2) /\ res_bufs[2].str = <<45, 57, 57>>

\* C2: in a negative base both binary-conversion entry points return with the
\* base-b representation of value(z1) op value(z2) in the buffer: no '-', digits
\* of the base only, no leading zero digit (zero is the one digit alph[0]), and
\* the digits evaluate in base b to the exact result.
C2_NegativeBaseRepresentation ==
  \A k \in 1..2 :
    (Called(k) /\ testcase.base < 0 /\ Fits(testcase)) =>
      LET r == res_bufs[k]
          v == Exact(testcase)
      IN /\ ~r.exit
         /\ PlainDigits(testcase.base, testcase.alph, r.str)
         /\ r.str[1] # Minus
         /\ ValueOf(testcase.base, testcase.alph, r.str) = v
         /\ v = 0 => r.str = <<testcase.alph[1]>>
         /\ r.top = Len(r.str)

\* "1" + "1" in base -2 has left "110" in the buffer of the SIMD entry point
C2_Witness ==
  /\ testcase.base = -2 /\ testcase.op = OpAdd
  /\ testcase.z1 = <<49>> /\ testcase.z2 = <<49>>
  /\ Called(1) /\ res_bufs[1].str = <<49, 49, 48>>

\* C3: the string the SIMD entry point writes is the string the SISD entry
\* point writes.
C3_SimdEqualsSisd ==
  (Called(1) /\ Called(2)) =>
    /\ res_bufs[1].str = res_bufs[2].str
    /\ res_bufs[1].exit = res_bufs[2].exit

\* both entry points have run on a negative operand of LongDigits digits and a
\* positive one of half as many, whose sum goes through the 15-byte and the
\* 7-byte steps
C3_Witness ==
  /\ testcase.base = LongBase /\ testcase.op = OpAdd
  /\ Len(testcase.z1) = LongDigits + 1 /\ Len(testcase.z2) = LongDigits \div 2
  /\ Called(1) /\ Called(2)
  /\ Len(res_bufs[2].str) = LongDigits + 1

\* C4: impl_naive writes the string the binary-conversion entry points write.
C4_NaiveEqualsBinary ==
  Called(3) =>
    /\ res_bufs[3].str = res_bufs[1].str
    /\ res_bufs[3].str = res_bufs[2].str

\* impl_naive has run on a signed operand with a leading zero digit:
\* "-09" - "9" in base 10 is "-18"
C4_Witness ==
  /\ testcase.base = 10 /\ testcase.op = OpSub
  /\ testcase.z1 = <<45, 48, 57>> /\ testcase.z2 = <<57>>
  /\ Called(3) /\ res_bufs[3].str = <<45, 49, 56>>

\* the bound of C6 on the characters of the result
max_result_chars(t) ==
  IF t.op = OpMul THEN 2 * max_chars(t.z1, t.z2) + 1 ELSE max_chars(t.z1, t.z2) + 2

\* the highest index of the result buffer main allocates
main_buffer_top(t) ==
  IF t.op = OpMul THEN max_needed_chars_mul(t.z1, t.z2)
  ELSE max_needed_chars_add_sub(t.z1, t.z2)

\* C6: the string a binary-conversion entry point writes has at most
\* max(strlen(z1), strlen(z2)) + 2 characters for '+' and '-' and at most
\* 2 * max(strlen(z1), strlen(z2)) + 1 for '*', and no store goes above the
\* last byte of a buffer of max_needed_chars + 1 bytes.
C6_ResultFitsBuffer ==
  \A k \in 1..2 :
    Called(k) =>
      /\ Len(res_bufs[k].str) <= max_result_chars(testcase)
      /\ res_bufs[k].top <= main_buffer_top(testcase)
      /\ ~res_bufs[k].f.ub

\* a result in a negative base has filled all the characters of the bound, and
\* its NUL is in the last byte of the buffer
C6_Witness ==
  /\ Called(1) /\ Called(2)
  /\ testcase.base < 0
  /\ Len(res_bufs[2].str) = max_result_chars(testcase)
  /\ res_bufs[2].top = main_buffer_top(testcase)

\* C7 as stated: no carry or borrow out of an addition or a subtraction, and no
\* left shift at all that drops a set bit.
C7_NoBitDroppedAnywhere ==
  \A k \in 1..2 :
    Called(k) => /\ ~res_bufs[k].f.w
                 /\ ~res_bufs[k].f.lost
                 /\ ~res_bufs[k].f.rv

\* C7: no magnitude addition or subtraction inside the call ends with a carry
\* or a borrow out of its destination (the overflow warning is not issued), and
\* no left shift of a product, of a remainder or of the Double Dabble buffer
\* drops a set bit; the shift of remaining_value, which hands its bits to the
\* Double Dabble buffer one by one, is the only one that shifts set bits out.
C7_NoOverflowWarning ==
  \A k \in 1..2 :
    Called(k) => /\ ~res_bufs[k].f.w
                 /\ ~res_bufs[k].f.lost
                 /\ res_bufs[k].f.rv => testcase.base > 0

\* a product of two operands of LongDigits digits has been projected in a
\* positive base: remaining_value has shifted its set bits out, and nothing else
\* has overflowed
C7_Witness ==
  /\ testcase.base = LongBase /\ testcase.op = OpMul
  /\ Len(testcase.z1) = LongDigits + 1 /\ Len(testcase.z2) = LongDigits + 1
  /\ Called(2)
  /\ res_bufs[2].f.rv /\ ~res_bufs[2].f.w /\ ~res_bufs[2].f.lost

\* TRUE when s is a '-' followed by zero digits only
MinusZero(alph, s) ==
  /\ Len(s) > 1
  /\ s[1] = Minus
  /\ \A k \in 2..Len(s) : s[k] = alph[1]

\* C8: when value(z1) op value(z2) is zero the result string is the one
\* character alph[0], and the result is never a '-' followed by zero digits only.
C8_ZeroIsUnsigned ==
  \A k \in 1..2 :
    Called(k) =>
      /\ (Fits(testcase) /\ Exact(testcase) = 0) => res_bufs[k].str = <<testcase.alph[1]>>
      /\ ~MinusZero(testcase.alph, res_bufs[k].str)

\* "-0" + "-0" in base 10 has left "0" in the buffer
C8_Witness ==
  /\ testcase.base = 10 /\ testcase.op = OpAdd
  /\ testcase.z1 = <<45, 48>> /\ testcase.z2 = <<45, 48>>
  /\ Called(1) /\ res_bufs[1].str = <<48>>

\* C10: for '+' and for '*' the string an entry point has written for (z1, z2)
\* is the string it writes for (z2, z1).
C10_Commutative ==
  (testcase.op = OpAdd \/ testcase.op = OpMul) =>
    /\ i = 1 => res_bufs[1].str =
                  arith_op_any_base__binary_conversion__simd(
                    testcase.base, testcase.alph, testcase.z2, testcase.z1, testcase.op).str
    /\ i = 2 => res_bufs[2].str =
                  arith_op_any_base__binary_conversion__sisd(
                    testcase.base, testcase.alph, testcase.z2, testcase.z1, testcase.op).str

\* a product of operands of different lengths and signs: "-9" * "10" in base 10
C10_Witness ==
  /\ testcase.base = 10 /\ testcase.op = OpMul
  /\ testcase.z1 = <<45, 57>> /\ testcase.z2 = <<57, 48>>
  /\ i = 2 /\ res_bufs[2].str = <<45, 56, 49, 48>>

canonicalize(alph, z) ==
  LET negative == z[1] = Minus
      digits == IF negative THEN Tail(z) ELSE z
      nonzero == {k \in 1..Len(digits) : digits[k] # alph[1]}
      first == IF nonzero = {} THEN Len(digits)
               ELSE CHOOSE k \in nonzero : \A j \in nonzero : k <= j
      kept == SubSeq(digits, first, Len(digits))
  IN IF negative /\ nonzero # {} THEN <<Minus>> \o kept ELSE kept

\* C9: parsing a digit string z and projecting the big_integer yields
\* canonicalize(z).
C9_ParseProjectCanonical ==
  i = 2 => /\ ~res_bufs[2].exit
           /\ res_bufs[2].str = canonicalize(testcase.alph, testcase.z)
\* ------------------------------------------------------------------------
\* Properties of the big_integer arithmetic
\* ------------------------------------------------------------------------

\* byte k of the magnitude m, zero above its length
ByteOf(m, k) == IF k <= Len(m) THEN m[k] ELSE 0

\* the magnitude m in n bytes
Padded(m, n) == Tup([k \in 1..n |-> ByteOf(m, k)])

\* TRUE when the sum of the bytes below k of x and y carries into byte k
SumCarries(x, y, k) ==
  \E j \in 1..(k - 1) :
    /\ ByteOf(x, j) + ByteOf(y, j) > 255
    /\ \A m \in (j + 1)..(k - 1) : ByteOf(x, m) + ByteOf(y, m) = 255

\* x + y in n bytes
MagnitudeSum(x, y, n) ==
  Tup([k \in 1..n |->
         (ByteOf(x, k) + ByteOf(y, k) + (IF SumCarries(x, y, k) THEN 1 ELSE 0)) % 256])

\* x < y
MagnitudeLess(x, y) ==
  \E k \in 1..max(Len(x), Len(y)) :
    /\ ByteOf(x, k) < ByteOf(y, k)
    /\ \A j \in (k + 1)..max(Len(x), Len(y)) : ByteOf(x, j) = ByteOf(y, j)

\* TRUE when the difference of the bytes below k of x and y borrows from byte k
DifferenceBorrows(x, y, k) ==
  \E j \in 1..(k - 1) :
    /\ ByteOf(x, j) < ByteOf(y, j)
    /\ \A m \in (j + 1)..(k - 1) : ByteOf(x, m) = ByteOf(y, m)

\* x - y in n bytes, for x >= y
MagnitudeDifference(x, y, n) ==
  Tup([k \in 1..n |->
         (ByteOf(x, k) - ByteOf(y, k) - (IF DifferenceBorrows(x, y, k) THEN 1 ELSE 0)
          + 256) % 256])

IsZeroMagnitude(m) == \A k \in 1..Len(m) : m[k] = 0

\* the signed sum of a and b as sign and magnitude, one byte longer than the
\* longer operand
SignedSum(a, b) ==
  IF a.sign = b.sign
  THEN [sign |-> a.sign,
        mem |-> MagnitudeSum(a.mem, b.mem, max(Len(a.mem), Len(b.mem)) + 1)]
  ELSE IF MagnitudeLess(a.mem, b.mem)
  THEN [sign |-> b.sign,
        mem |-> MagnitudeDifference(b.mem, a.mem, max(Len(a.mem), Len(b.mem)) + 1)]
  ELSE [sign |-> a.sign,
        mem |-> MagnitudeDifference(a.mem, b.mem, max(Len(a.mem), Len(b.mem)) + 1)]

\* the signed difference a - b
SignedDifference(a, b) == SignedSum(a, [b EXCEPT !.sign = ~b.sign])

\* the exact result of the testcase of the binary arithmetic
ExactAddSub(t) == IF t.op = OpAdd THEN SignedSum(t.a, t.b) ELSE SignedDifference(t.a, t.b)

\* TRUE when the magnitude of want fits n bytes
FitsBytes(want, n) == \A k \in (n + 1)..Len(want.mem) : want.mem[k] = 0

\* TRUE when got holds the value want: the magnitude, and the sign unless the
\* value is zero
HoldsValue(got, want) ==
  /\ Padded(got.mem, Len(want.mem)) = want.mem
  /\ ~IsZeroMagnitude(want.mem) => got.sign = want.sign

\* TRUE when call k of the binary arithmetic has returned or ended the process
Ran(k) == i >= k

\* C12: for signed a and b whose sum fits a.length bytes, big_integer_addition
\* returns and leaves a + b in a: the exact magnitude, and the sign of the sum
\* when the sum is not zero.
C12_AdditionExact ==
  \A k \in 1..2 :
    (Ran(k) /\ testcase.op = OpAdd
       /\ FitsBytes(ExactAddSub(testcase), Len(testcase.a.mem))) =>
      /\ ~res_bufs[k].exit
      /\ Len(res_bufs[k].a.mem) = Len(testcase.a.mem)
      /\ HoldsValue(res_bufs[k].a, ExactAddSub(testcase))

\* -(2^64 - 1) in eight bytes plus 1 in sixteen bytes has left -(2^64 - 2) in
\* the eight bytes of a, with and without SIMD
C12_Witness ==
  /\ Ran(2) /\ testcase.op = OpAdd
  /\ testcase.a = create_big_integer_of_bytes(Tup([k \in 1..8 |-> 255]), TRUE)
  /\ testcase.b = create_big_integer_of_bytes(Tup([k \in 1..16 |-> IF k = 1 THEN 1 ELSE 0]),
                                              FALSE)
  /\ res_bufs[1].a = res_bufs[2].a
  /\ res_bufs[2].a = create_big_integer_of_bytes(
                       Tup([k \in 1..8 |-> IF k = 1 THEN 254 ELSE 255]), TRUE)

\* C13: for signed a and b whose difference fits a.length bytes,
\* big_integer_subtraction returns and leaves a - b in a: the exact magnitude,
\* and the sign of the difference when the difference is not zero.
C13_SubtractionExact ==
  \A k \in 1..2 :
    (Ran(k) /\ testcase.op = OpSub
       /\ FitsBytes(ExactAddSub(testcase), Len(testcase.a.mem))) =>
      /\ ~res_bufs[k].exit
      /\ Len(res_bufs[k].a.mem) = Len(testcase.a.mem)
      /\ HoldsValue(res_bufs[k].a, ExactAddSub(testcase))

\* C19: when big_integer_subtraction is called with a < 0 and b < 0, the working
\* copy of b has max(a.length, b.length) bytes and holds the magnitude of b, and
\* no byte is copied past the end of a buffer.
C19_WorkingCopyHoldsB ==
  \A k \in 1..2 :
    (Ran(k) /\ testcase.op = OpSub /\ testcase.a.sign /\ testcase.b.sign) =>
      LET b_copy == clone_big_integer_add_size(testcase.b,
                      max(0, Len(testcase.a.mem) - Len(testcase.b.mem)))
          length == IF Len(testcase.a.mem) > Len(testcase.b.mem)
                    THEN Len(testcase.a.mem) ELSE Len(testcase.b.mem)
      IN /\ Len(b_copy.big.mem) = length
         /\ b_copy.big.mem = Padded(testcase.b.mem, length)
         /\ ~b_copy.overrun
         /\ ~res_bufs[k].ub

MulLengths == {1, 7, 8}

\* res_length is a.length + b.length or one byte more
MulTestcases ==
  {[a |-> create_big_integer_of_bytes(ma, sa), b |-> create_big_integer_of_bytes(mb, sb),
    res_length |-> Len(ma) + Len(mb) + more] :
     ma \in UNION {Magnitudes(n) : n \in MulLengths},
     mb \in UNION {Magnitudes(n) : n \in MulLengths},
     sa \in BOOLEAN, sb \in BOOLEAN, more \in {0, 1}}

\* the call of the testcase: the product goes into a new big_integer of
\* res_length zero bytes
mul(t, simd) ==
  big_integer_multiplication(t.a, t.b, create_big_integer(t.res_length, FALSE), simd)

\* no product yet
NoProduct == [res |-> create_big_integer(0, FALSE), f |-> NoFlags]

InitMul ==
  /\ testcase \in MulTestcases
  /\ i = 0
  /\ res_bufs = <<NoProduct, NoProduct>>
  /\ passed = "running"

\* the multiplication with simd = true
MulSimd ==
  /\ passed = "running"
  /\ i = 0
  /\ res_bufs' = [res_bufs EXCEPT ![1] = mul(testcase, TRUE)]
  /\ i' = 1
  /\ UNCHANGED <<testcase, passed>>

\* the multiplication with simd = false, on the same operands
MulSisd ==
  /\ passed = "running"
  /\ i = 1
  /\ res_bufs' = [res_bufs EXCEPT ![2] = mul(testcase, FALSE)]
  /\ i' = 2
  /\ passed' = "done"
  /\ UNCHANGED testcase

NextMul == MulSimd \/ MulSisd

SpecMul == InitMul /\ [][NextMul]_vars

RECURSIVE ColumnSum(_, _, _, _)
\* the sum of the products x[j] * y[k + 1 - j] for j = 1 .. m: what the bytes
\* of x up to m and those of y add to byte k of the product
ColumnSum(x, y, k, m) ==
  IF m = 0 THEN 0
  ELSE ByteOf(x, m) * ByteOf(y, k + 1 - m) + ColumnSum(x, y, k, m - 1)

RECURSIVE ProductBytes(_, _, _, _, _)
\* the bytes k .. n of x * y, given the carry into byte k
ProductBytes(x, y, k, n, carry) ==
  IF k > n THEN <<>>
  ELSE <<(ColumnSum(x, y, k, k) + carry) % 256>>
       \o ProductBytes(x, y, k + 1, n, (ColumnSum(x, y, k, k) + carry) \div 256)

\* x * y in n bytes
MagnitudeProduct(x, y, n) == ProductBytes(x, y, 1, n, 0)

\* C14: for res of at least a.length + b.length zero bytes,
\* big_integer_multiplication leaves in res the magnitude |a| * |b| and the sign
\* a.sign XOR b.sign, with nothing lost on the way, whatever the signs of a
\* and b.
C14_ProductExact ==
  \A k \in 1..2 :
    Ran(k) =>
      /\ res_bufs[k].res.mem
           = MagnitudeProduct(testcase.a.mem, testcase.b.mem, testcase.res_length)
      /\ res_bufs[k].res.sign = (testcase.a.sign # testcase.b.sign)
      /\ ~res_bufs[k].f.ub

\* -(2^64 - 1) times 2^56 - 1 has gone through a 15-byte step and left the
\* negative product in res
C14_Witness ==
  /\ Ran(2)
  /\ testcase.a = create_big_integer_of_bytes(Tup([k \in 1..8 |-> 255]), TRUE)
  /\ testcase.b = create_big_integer_of_bytes(Tup([k \in 1..7 |-> 255]), FALSE)
  /\ testcase.res_length = 15
  /\ res_bufs[1] = res_bufs[2]
  /\ res_bufs[2].res.sign
  /\ res_bufs[2].res.mem[1] = 1 /\ res_bufs[2].res.mem[15] = 255

\* ------------------------------------------------------------------------
\* big_integer_division_int9_t on dividends of several lengths, with and
\* without SIMD
\* ------------------------------------------------------------------------

DivLengths == {1, 2, 8}

\* divisors of both signs, the smallest, the largest of one byte, and the
\* largest magnitude of the range
Divisors == {1, 2, 10, 128, 255, 256, -1, -3, -128, -256}

DivTestcases ==
  {[a |-> create_big_integer_of_bytes(m, sign), div |-> d] :
     m \in UNION {Magnitudes(n) : n \in DivLengths}, sign \in BOOLEAN, d \in Divisors}

\* the call of the testcase, with temporaries of a.length bytes
div_int9(t, simd) ==
  big_integer_division_int9_t(t.a, t.div, create_big_integer(Len(t.a.mem), FALSE),
                              create_big_integer(Len(t.a.mem), FALSE), simd)

\* no quotient yet
NoQuotient == [value |-> create_big_integer(0, FALSE), remainder16 |-> 0, f |-> NoFlags]

\* what the call leaves: the quotient in a, the remainder returned, the flags
Quotient(d) == [value |-> d.value, remainder16 |-> d.remainder16, f |-> d.f]

InitDiv ==
  /\ testcase \in DivTestcases
  /\ i = 0
  /\ res_bufs = <<NoQuotient, NoQuotient>>
  /\ passed = "running"

\* the division with simd = true
DivSimd ==
  /\ passed = "running"
  /\ i = 0
  /\ res_bufs' = [res_bufs EXCEPT ![1] = Quotient(div_int9(testcase, TRUE))]
  /\ i' = 1
  /\ UNCHANGED <<testcase, passed>>

\* the division with simd = false, on the same operands
DivSisd ==
  /\ passed = "running"
  /\ i = 1
  /\ res_bufs' = [res_bufs EXCEPT ![2] = Quotient(div_int9(testcase, FALSE))]
  /\ i' = 2
  /\ passed' = "done"
  /\ UNCHANGED testcase

NextDiv == DivSimd \/ DivSisd

SpecDiv == InitDiv /\ [][NextDiv]_vars

\* the two bytes of a magnitude up to 65535
TwoBytes(m) == <<m % 256, m \div 256>>

\* TRUE when a = q * d + r with |r| < |d|, for the signed quotient q and the
\* remainder r left by a division of a by d: the magnitudes satisfy
\* |a| = |q| * |d| + |r|, q has the sign a.sign XOR (d < 0), and r is negative
\* only when a is
IsQuotientAndRemainder(a, d, q, r) ==
  /\ Len(q.mem) = Len(a.mem)
  /\ abs(r) < abs(d)
  /\ MagnitudeSum(MagnitudeProduct(q.mem, TwoBytes(abs(d)), Len(a.mem) + 2),
                  TwoBytes(abs(r)), Len(a.mem) + 2)
       = Padded(a.mem, Len(a.mem) + 2)
  /\ q.sign = (a.sign # (d < 0))
  /\ IF a.sign THEN r <= 0 ELSE r >= 0

\* C15: for d # 0 with |d| <= 256 and temporaries of a.length bytes,
\* big_integer_division_int9_t leaves floor(|a| / |d|) in a with the sign
\* a.sign XOR (d < 0) and returns the remainder |a| mod |d|, negated when a was
\* negative, so that a_old = a * d + r.
C15_DivisionExact ==
  \A k \in 1..2 :
    Ran(k) => IsQuotientAndRemainder(testcase.a, testcase.div, res_bufs[k].value,
                                     res_bufs[k].remainder16)

\* ------------------------------------------------------------------------
\* big_integer_shl_bitwise_0_to_7 on values of several lengths, with and
\* without SIMD
\* ------------------------------------------------------------------------

\* lengths below, at and above one and two 7-byte steps
ShlLengths == {1, 6, 7, 8, 14, 15}

\* the magnitudes to shift: those of the arithmetic, and one whose bytes all
\* have their highest and lowest bit set
ShlMagnitudes(n) == Magnitudes(n) \cup {Tup([k \in 1..n |-> 129])}

ShlTestcases ==
  {[a |-> create_big_integer_of_bytes(m, sign), shift_count |-> c] :
     m \in UNION {ShlMagnitudes(n) : n \in ShlLengths}, sign \in BOOLEAN, c \in 0..7}

\* nothing shifted yet
NotShifted == [value |-> create_big_integer(0, FALSE), carry |-> 0]

\* what the call leaves: the value, and the bits that left it
Shifted(r) == [value |-> r.value, carry |-> r.carry]

InitShl ==
  /\ testcase \in ShlTestcases
  /\ i = 0
  /\ res_bufs = <<NotShifted, NotShifted>>
  /\ passed = "running"

\* the shift with simd = true
ShlSimd ==
  /\ passed = "running"
  /\ i = 0
  /\ res_bufs' = [res_bufs EXCEPT ![1] =
       Shifted(big_integer_shl_bitwise_0_to_7(testcase.a, testcase.shift_count, TRUE))]
  /\ i' = 1
  /\ UNCHANGED <<testcase, passed>>

\* the shift with simd = false, of the same value
ShlSisd ==
  /\ passed = "running"
  /\ i = 1
  /\ res_bufs' = [res_bufs EXCEPT ![2] =
       Shifted(big_integer_shl_bitwise_0_to_7(testcase.a, testcase.shift_count, FALSE))]
  /\ i' = 2
  /\ passed' = "done"
  /\ UNCHANGED testcase

NextShl == ShlSimd \/ ShlSisd

SpecShl == InitShl /\ [][NextShl]_vars

\* C16: big_integer_shl_bitwise_0_to_7(a, k) leaves in a the magnitude
\* (old * 2^k) mod 256^length with the sign and the length a had, and the SIMD
\* variant leaves the bytes the byte-wise variant leaves.
C16_ShiftExact ==
  /\ \A k \in 1..2 :
       Ran(k) =>
         /\ res_bufs[k].value.mem
              = MagnitudeProduct(testcase.a.mem, <<Pow2(testcase.shift_count)>>,
                                 Len(testcase.a.mem))
         /\ res_bufs[k].value.sign = testcase.a.sign
  /\ Ran(2) => res_bufs[1].value = res_bufs[2].value

\* a negative value of 15 bytes, each 129, has been shifted by 7 bits through
\* two 7-byte steps and the byte loop: the bits of each byte went into the next
C16_Witness ==
  /\ Ran(2)
  /\ testcase.a = create_big_integer_of_bytes(Tup([k \in 1..15 |-> 129]), TRUE)
  /\ testcase.shift_count = 7
  /\ res_bufs[1].value = res_bufs[2].value
  /\ res_bufs[1].value.mem = Tup([k \in 1..15 |-> IF k = 1 THEN 128 ELSE 192])
  /\ res_bufs[1].carry = 64

\* ------------------------------------------------------------------------
\* The stores of the projection against the buffer_length it is given
\* ------------------------------------------------------------------------

\* C18: every byte convert_big_integer_to_any_base stores into its buffer, the
\* NUL included, is at an index below the buffer_length the entry point passes:
\* max + 2 (+ 1 in a negative base) for '+', max + 3 for '-' and 2 * max + 1
\* for '*', max the longer of strlen(z1) and strlen(z2).
C18_StoresBelowBufferLength ==
  \A k \in 1..2 :
    Called(k) =>
      res_bufs[k].top < arith_op_result_length(testcase.base, Len(testcase.z1),
                                               Len(testcase.z2), testcase.op)

\* ------------------------------------------------------------------------
\* big_integer_is_equal on operands of all lengths
\* ------------------------------------------------------------------------

EqualTestcases == [a : BigIntegers, b : BigIntegers]

\* nothing compared yet
NotCompared == [eq |-> FALSE]

InitEqual ==
  /\ testcase \in EqualTestcases
  /\ i = 0
  /\ res_bufs = <<NotCompared>>
  /\ passed = "running"

\* the comparison of the testcase
IsEqual ==
  /\ passed = "running"
  /\ i = 0
  /\ res_bufs' = <<[eq |-> big_integer_is_equal(testcase.a, testcase.b)]>>
  /\ i' = 1
  /\ passed' = "done"
  /\ UNCHANGED testcase

NextEqual == IsEqual

SpecEqual == InitEqual /\ [][NextEqual]_vars

\* TRUE when the magnitudes of a and b are equal, the shorter one zero-padded
SameMagnitude(a, b) ==
  Padded(a.mem, max(Len(a.mem), Len(b.mem))) = Padded(b.mem, max(Len(a.mem), Len(b.mem)))

\* C17 as stated: big_integer_is_equal is true when both magnitudes are zero,
\* whatever the signs, and otherwise exactly when the signs are identical and
\* the magnitudes are equal.
C17_EqualZeroWhateverSigns ==
  Ran(1) =>
    res_bufs[1].eq
      = IF IsZeroMagnitude(testcase.a.mem) /\ IsZeroMagnitude(testcase.b.mem) THEN TRUE
        ELSE testcase.a.sign = testcase.b.sign /\ SameMagnitude(testcase.a, testcase.b)

\* C17: big_integer_is_equal is false whenever the signs differ, also between
\* +0 and -0, and with identical signs it is true exactly when the magnitudes
\* are equal, the shorter operand zero-padded.
C17_EqualSignsAndMagnitudes ==
  Ran(1) =>
    res_bufs[1].eq
      = (testcase.a.sign = testcase.b.sign /\ SameMagnitude(testcase.a, testcase.b))

\* +0 in one byte has been compared with -0 in seven bytes and found different
C17_Witness ==
  /\ Ran(1)
  /\ testcase.a = create_big_integer(1, FALSE)
  /\ testcase.b = create_big_integer(7, TRUE)
  /\ ~res_bufs[1].eq

\* ------------------------------------------------------------------------
\* The big_integers of one call of arith_op_any_base__binary_conversion: where
\* each is created, read or written, and destroyed
\* ------------------------------------------------------------------------

\* the most digits of an operand, and the most digits of a result in a
\* negative base
HeapDigits == 3

\* the pointer variables of the functions of the call; b_copy_2 is the b_copy of
\* a big_integer_subtraction called by big_integer_subtraction
Pointers ==
  {"z1_binary", "z2_binary", "res", "z1_temp", "z2_temp", "current_weight", "temp",
   "temp2", "b_copy", "b_copy_2", "pp", "calc_buffer", "remaining_value", "divisor_big"}

\* What a function does to the heap, in program order: p = create_big_integer
\* or a clone, delete_big_integer(p), a read or write through the pointers of
\* ps, p = q, and the exchange of p and q.
Create(p) == [do |-> "create", p |-> p, q |-> p, ps |-> {}]

Delete(p) == [do |-> "delete", p |-> p, q |-> p, ps |-> {}]

Access(ps) == [do |-> "access", p |-> "res", q |-> "res", ps |-> ps]

Assign(p, q) == [do |-> "assign", p |-> p, q |-> q, ps |-> {}]

Swap(p, q) == [do |-> "swap", p |-> p, q |-> q, ps |-> {}]

\* The heap: cells has one entry per big_integer created, "live" or "freed";
\* ptr gives the cell a pointer variable points to (0 before its first
\* assignment); double_free and use_after_free record what must not happen.
EmptyHeap ==
  [cells |-> <<>>, ptr |-> [p \in Pointers |-> 0],
   double_free |-> FALSE, use_after_free |-> FALSE]

\* TRUE when p points to a big_integer that has been destroyed, or to none
Dangling(h, p) == h.ptr[p] = 0 \/ h.cells[h.ptr[p]] = "freed"

\* free(value->mem); free(value): the cell is freed; a second delete of the
\* same big_integer is a double free
delete_big_integer_on_heap(h, p) ==
  IF Dangling(h, p) THEN [h EXCEPT !.double_free = TRUE]
  ELSE [h EXCEPT !.cells[h.ptr[p]] = "freed"]

\* the heap after one event
Exec(h, e) ==
  CASE e.do = "create" ->
         [h EXCEPT !.cells = Append(h.cells, "live"), !.ptr[e.p] = Len(h.cells) + 1]
    [] e.do = "delete" -> delete_big_integer_on_heap(h, e.p)
    [] e.do = "access" ->
         IF \E p \in e.ps : Dangling(h, p) THEN [h EXCEPT !.use_after_free = TRUE] ELSE h
    [] e.do = "assign" -> [h EXCEPT !.ptr[e.p] = h.ptr[e.q]]
    [] e.do = "swap" -> [h EXCEPT !.ptr[e.p] = h.ptr[e.q], !.ptr[e.q] = h.ptr[e.p]]

RECURSIVE Run(_, _)
\* the heap after the events of es, in order
Run(h, es) == IF es = <<>> THEN h ELSE Run(Exec(h, Head(es)), Tail(es))

\* the b_copy of the call of big_integer_subtraction at the given depth
b_copy_of(depth) == IF depth = 1 THEN "b_copy" ELSE "b_copy_2"

\* What decides the path of an addition or subtraction: the signs of a and b
\* and whether |b| > |a|
SignCases == [a_sign : BOOLEAN, b_sign : BOOLEAN, b_greater : BOOLEAN]

RECURSIVE subtraction_events(_, _, _, _)
\* the events of big_integer_subtraction(a, b) in case c
subtraction_events(a, b, c, depth) ==
  IF c.a_sign # c.b_sign THEN <<Access({a, b})>>
  ELSE IF c.a_sign /\ c.b_sign
  THEN <<Access({b}), Create(b_copy_of(depth))>>
       \o subtraction_events(b_copy_of(depth), a,
            [a_sign |-> FALSE, b_sign |-> FALSE, b_greater |-> ~c.b_greater], depth + 1)
       \o <<Access({b_copy_of(depth), a}), Delete(b_copy_of(depth))>>
  ELSE IF c.b_greater
  THEN <<Access({b}), Create(b_copy_of(depth))>>
       \o subtraction_events(b, a,
            [a_sign |-> FALSE, b_sign |-> FALSE, b_greater |-> FALSE], depth + 1)
       \o <<Access({a, b, b_copy_of(depth)}), Delete(b_copy_of(depth))>>
  ELSE <<Access({a, b})>>

\* the events of big_integer_addition(a, b) in case c: with different signs the
\* subtraction of the magnitudes
addition_events(a, b, c) ==
  IF c.a_sign # c.b_sign
  THEN subtraction_events(a, b, [c EXCEPT !.a_sign = FALSE, !.b_sign = FALSE], 1)
  ELSE <<Access({a, b})>>

\* the events of the creations at the start of
\* convert_numbers_from_any_base_into_binary
convert_numbers_begin_events ==
  <<Access({"z1_binary", "z2_binary"}), Create("z1_temp"), Create("z2_temp"),
    Create("current_weight"), Create("temp"), Create("temp2"), Access({"current_weight"})>>

\* the events of one iteration of its loop: a digit of z1 when z1 has one at
\* this position, a digit of z2 likewise, the next weight, and the exchange of
\* current_weight and temp
convert_numbers_digit_events(has1, has2, c1, c2) ==
  (IF has1 THEN <<Access({"current_weight", "z1_temp", "temp2"})>>
                \o addition_events("z1_binary", "z1_temp", c1)
   ELSE <<>>)
  \o (IF has2 THEN <<Access({"current_weight", "z2_temp", "temp2"})>>
                   \o addition_events("z2_binary", "z2_temp", c2)
      ELSE <<>>)
  \o <<Access({"current_weight", "temp", "temp2"}), Swap("temp", "current_weight")>>

\* the events of the deletions at its end
convert_numbers_end_events ==
  <<Delete("temp"), Delete("temp2"), Delete("current_weight"), Delete("z1_temp"),
    Delete("z2_temp")>>

\* the events of big_integer_multiplication(a, b, res): every addition is one of
\* two values that are not negative
multiplication_events(a, b, res) ==
  <<Access({res, a}), Create("pp"), Create("temp"), Access({a, b, "pp", "temp", res}),
    Delete("pp"), Delete("temp"), Access({a, b, res})>>

\* the events of the case '*' of the switch that keep z1_binary
switch_mul_events_z1_kept ==
  <<Access({"z1_binary", "z2_binary"}), Create("res")>>
  \o multiplication_events("z1_binary", "z2_binary", "res")

\* the events of the case '*' of the switch
switch_mul_events ==
  <<Access({"z1_binary", "z2_binary"}), Create("res")>>
  \o multiplication_events("z1_binary", "z2_binary", "res")
  \o <<Delete("z1_binary")>>

\* the events of the switch on op in case c
switch_events(op, c) ==
  IF op = OpAdd
  THEN addition_events("z1_binary", "z2_binary", c) \o <<Assign("res", "z1_binary")>>
  ELSE IF op = OpSub
  THEN subtraction_events("z1_binary", "z2_binary", c, 1) \o <<Assign("res", "z1_binary")>>
  ELSE switch_mul_events

\* the events of big_integer_division_int9_t(value, divisor, temp, temp2): the
\* remainder is not below the divisor when the divisor is subtracted from it
division_events(value) ==
  <<Access({value, "temp", "temp2"}), Create("divisor_big"),
    Access({value, "temp", "temp2", "divisor_big"}), Delete("divisor_big")>>

RECURSIVE to_base_negative_events(_, _)
\* the events of digits iterations of the division loop of the negative branch
to_base_negative_events(value, digits) ==
  IF digits = 0 THEN <<>>
  ELSE division_events(value) \o <<Access({value})>>
       \o to_base_negative_events(value, digits - 1)

\* The events of convert_big_integer_to_any_base(value).  zero: the value is
\* zero; digits: the number of digits of a value that is not; quits: the call
\* ends the process on one of its checks instead of returning.
projection_events(value, negative_base, zero, digits, quits) ==
  IF ~negative_base
  THEN <<Create("calc_buffer"), Access({value}), Create("remaining_value"),
         Access({"calc_buffer", "remaining_value"})>>
       \o (IF quits THEN <<>> ELSE <<Delete("calc_buffer"), Delete("remaining_value")>>)
  ELSE IF zero THEN <<Access({value})>>
  ELSE <<Access({value}), Create("temp"), Create("temp2")>>
       \o to_base_negative_events(value, digits)
       \o (IF quits THEN <<>> ELSE <<Delete("temp"), Delete("temp2")>>)

\* the events of the end of the entry point
release_events == <<Delete("res"), Delete("z2_binary")>>

HeapTestcases ==
  [op : Ops, negative_base : BOOLEAN, z1_length : 1..HeapDigits, z2_length : 1..HeapDigits]

\* the state of the call: the heap and the number of digits parsed
InitHeap ==
  /\ testcase \in HeapTestcases
  /\ i = 0
  /\ res_bufs = <<[heap |-> EmptyHeap, digit |-> 0]>>
  /\ passed = "running"

\* the heap of the call after the events of es
After(es) == [res_bufs EXCEPT ![1].heap = Run(res_bufs[1].heap, es)]

\* the creation of z2_binary and z1_binary
CreateOperands ==
  /\ passed = "running" /\ i = 0
  /\ res_bufs' = After(<<Create("z2_binary"), Create("z1_binary")>>)
  /\ i' = 1
  /\ UNCHANGED <<testcase, passed>>

\* the start of the conversion of the operands
ParseBegin ==
  /\ passed = "running" /\ i = 1
  /\ res_bufs' = After(convert_numbers_begin_events)
  /\ i' = 2
  /\ UNCHANGED <<testcase, passed>>

\* one iteration of the loop of the conversion; in a positive base every
\* addition is one of two values that are not negative
ParseDigit ==
  /\ passed = "running" /\ i = 2
  /\ res_bufs[1].digit < max(testcase.z1_length, testcase.z2_length)
  /\ \E c1 \in SignCases, c2 \in SignCases :
       /\ ~testcase.negative_base =>
            /\ ~c1.a_sign /\ ~c1.b_sign /\ ~c1.b_greater
            /\ c2 = c1
       /\ res_bufs' = [After(convert_numbers_digit_events(
                               res_bufs[1].digit < testcase.z1_length,
                               res_bufs[1].digit < testcase.z2_length, c1, c2))
                         EXCEPT ![1].digit = res_bufs[1].digit + 1]
  /\ UNCHANGED <<testcase, i, passed>>

\* the end of the conversion
ParseEnd ==
  /\ passed = "running" /\ i = 2
  /\ res_bufs[1].digit = max(testcase.z1_length, testcase.z2_length)
  /\ res_bufs' = After(convert_numbers_end_events)
  /\ i' = 3
  /\ UNCHANGED <<testcase, passed>>

\* the switch on op, for operands of any signs and magnitudes
Operate ==
  /\ passed = "running" /\ i = 3
  /\ \E c \in SignCases : res_bufs' = After(switch_events(testcase.op, c))
  /\ i' = 4
  /\ UNCHANGED <<testcase, passed>>

\* the projection of res, which returns or ends the process
ProjectResult ==
  /\ passed = "running" /\ i = 4
  /\ \E zero \in BOOLEAN, digits \in 1..HeapDigits, quits \in BOOLEAN :
       /\ res_bufs' = After(<<Access({"res"})>>
                            \o projection_events("res", testcase.negative_base, zero,
                                                 digits, quits))
       /\ i' = IF quits THEN 4 ELSE 5
       /\ passed' = IF quits THEN "exited" ELSE passed
  /\ UNCHANGED testcase

\* the deletions at the end of the entry point, and its return
Release ==
  /\ passed = "running" /\ i = 5
  /\ res_bufs' = After(release_events)
  /\ i' = 6
  /\ passed' = "returned"
  /\ UNCHANGED testcase

NextHeap ==
  CreateOperands \/ ParseBegin \/ ParseDigit \/ ParseEnd \/ Operate \/ ProjectResult \/ Release

SpecHeap == InitHeap /\ [][NextHeap]_vars

MulIntoLengths == {1, 7}

\* res has a.length + b.length bytes and any of the magnitudes and signs
MulIntoTestcases ==
  {[a |-> create_big_integer_of_bytes(ma, sa), b |-> create_big_integer_of_bytes(mb, sb),
    res |-> create_big_integer_of_bytes(mr, sr)] :
     ma \in UNION {Magnitudes(n) : n \in MulIntoLengths},
     mb \in UNION {Magnitudes(n) : n \in MulIntoLengths},
     sa \in BOOLEAN, sb \in BOOLEAN,
     mr \in UNION {Magnitudes(n) : n \in {2, 8, 14}}, sr \in BOOLEAN}

\* the call of the testcase: the product goes into the res of the testcase
mul_into(t, simd) == big_integer_multiplication(t.a, t.b, t.res, simd)

InitMulInto ==
  /\ testcase \in {t \in MulIntoTestcases : Len(t.res.mem) = Len(t.a.mem) + Len(t.b.mem)}
  /\ i = 0
  /\ res_bufs = <<NoProduct, NoProduct>>
  /\ passed = "running"

\* the multiplication with simd = true
MulIntoSimd ==
  /\ passed = "running"
  /\ i = 0
  /\ res_bufs' = [res_bufs EXCEPT ![1] = mul_into(testcase, TRUE)]
  /\ i' = 1
  /\ UNCHANGED <<testcase, passed>>

\* the multiplication with simd = false, on the same operands
MulIntoSisd ==
  /\ passed = "running"
  /\ i = 1
  /\ res_bufs' = [res_bufs EXCEPT ![2] = mul_into(testcase, FALSE)]
  /\ i' = 2
  /\ passed' = "done"
  /\ UNCHANGED testcase

NextMulInto == MulIntoSimd \/ MulIntoSisd

SpecMulInto == InitMulInto /\ [][NextMulInto]_vars

\* C21: whatever magnitude and sign res holds on entry,
\* big_integer_multiplication leaves in res the magnitude |a| * |b| and the
\* sign a.sign XOR b.sign.
C21_ProductWhateverResHeld ==
  \A k \in 1..2 :
    Ran(k) =>
      /\ res_bufs[k].res.mem
           = MagnitudeProduct(testcase.a.mem, testcase.b.mem, Len(testcase.res.mem))
      /\ res_bufs[k].res.sign = (testcase.a.sign # testcase.b.sign)

\* ------------------------------------------------------------------------
\* big_integer_greater_equal_int16 on values of several lengths
\* ------------------------------------------------------------------------

GeLengths == {1, 2, 8}

\* the small integers compared with: zero, both ends of the range, and values
\* of both signs below, at and above the first bytes of the magnitudes
SmallIntegers == {-256, -255, -2, -1, 0, 1, 2, 255, 256}

GeTestcases ==
  {[a |-> create_big_integer_of_bytes(m, sign), b |-> b] :
     m \in UNION {Magnitudes(n) : n \in GeLengths}, sign \in BOOLEAN, b \in SmallIntegers}

\* nothing compared yet
NotOrdered == [ge |-> FALSE]

InitGe ==
  /\ testcase \in GeTestcases
  /\ i = 0
  /\ res_bufs = <<NotOrdered, NotOrdered>>
  /\ passed = "running"

\* the comparison with simd = true
GeSimd ==
  /\ passed = "running"
  /\ i = 0
  /\ res_bufs' = [res_bufs EXCEPT
                    ![1] = [ge |-> big_integer_greater_equal_int16(testcase.a, testcase.b, TRUE)]]
  /\ i' = 1
  /\ UNCHANGED <<testcase, passed>>

\* the comparison with simd = false, on the same operands
GeSisd ==
  /\ passed = "running"
  /\ i = 1
  /\ res_bufs' = [res_bufs EXCEPT
                    ![2] = [ge |-> big_integer_greater_equal_int16(testcase.a, testcase.b, FALSE)]]
  /\ i' = 2
  /\ passed' = "done"
  /\ UNCHANGED testcase

NextGe == GeSimd \/ GeSisd

SpecGe == InitGe /\ [][NextGe]_vars

\* TRUE when the signed value of a is at least b, for b in -256 .. 256: a value
\* that is not negative is at least every b <= 0 and every b its magnitude is
\* not below; a negative value is at least the negative b whose magnitude its
\* own does not exceed
SignedGreaterEqual(a, b) ==
  IF ~a.sign \/ IsZeroMagnitude(a.mem)
  THEN b <= 0 \/ ~MagnitudeLess(a.mem, TwoBytes(abs(b)))
  ELSE b < 0 /\ ~MagnitudeLess(TwoBytes(abs(b)), a.mem)

\* C22: for every signed a and every b in -256 .. 256,
\* big_integer_greater_equal_int16(a, b) is true exactly when the signed value
\* of a is greater than or equal to b.
C22_GreaterEqualExact ==
  \A k \in 1..2 :
    Ran(k) => res_bufs[k].ge = SignedGreaterEqual(testcase.a, testcase.b)

\* ------------------------------------------------------------------------
\* big_integer_increment on values of several lengths
\* ------------------------------------------------------------------------

IncrementLengths == {1, 2, 3, 7, 8, 15, 16}

IncrementTestcases ==
  {[a |-> create_big_integer_of_bytes(m, sign)] :
     m \in UNION {Magnitudes(n) : n \in IncrementLengths}, sign \in BOOLEAN}

\* not incremented yet
NotIncremented == [value |-> create_big_integer(0, FALSE)]

InitIncrement ==
  /\ testcase \in IncrementTestcases
  /\ i = 0
  /\ res_bufs = <<NotIncremented>>
  /\ passed = "running"

\* the call of big_integer_increment on the value of the testcase
Increment ==
  /\ passed = "running"
  /\ i = 0
  /\ res_bufs' = <<[value |-> big_integer_increment(testcase.a)]>>
  /\ i' = 1
  /\ passed' = "done"
  /\ UNCHANGED testcase

NextIncrement == Increment

SpecIncrement == InitIncrement /\ [][NextIncrement]_vars

\* the signed value a + 1 as sign and magnitude
Successor(a) == SignedSum(a, create_big_integer_of_bytes(<<1>>, FALSE))

\* C23: big_integer_increment leaves a + 1 in a whenever a + 1 fits the bytes
\* of a: the magnitude |a| + 1 for a >= 0 and, for a < 0 with a magnitude of at
\* least 1, the magnitude |a| - 1, with the sign of a + 1 when a + 1 is not
\* zero.
C23_IncrementExact ==
  (Ran(1) /\ (testcase.a.sign => ~IsZeroMagnitude(testcase.a.mem))
     /\ FitsBytes(Successor(testcase.a), Len(testcase.a.mem))) =>
    /\ Len(res_bufs[1].value.mem) = Len(testcase.a.mem)
    /\ HoldsValue(res_bufs[1].value, Successor(testcase.a))

\* ------------------------------------------------------------------------
\* big_integer_multiply_int_neg256_to_256 on values of several lengths, with
\* and without SIMD
\* ------------------------------------------------------------------------

MulSmallLengths == {1, 7, 8}

\* multipliers of both signs: zero, one, the largest of one byte and both ends
\* of the range
Multipliers == {-256, -255, -128, -2, -1, 0, 1, 2, 10, 128, 255, 256}

MulSmallTestcases ==
  {[a |-> create_big_integer_of_bytes(m, sign), mul |-> f] :
     m \in UNION {Magnitudes(n) : n \in MulSmallLengths}, sign \in BOOLEAN,
     f \in Multipliers}

\* the call of the testcase, with result and temp one byte longer than a
mul_small(t, simd) ==
  big_integer_multiply_int_neg256_to_256(t.a, t.mul,
    create_big_integer(Len(t.a.mem) + 1, FALSE),
    create_big_integer(Len(t.a.mem) + 1, FALSE), simd)

\* no product yet
NoSmallProduct ==
  [result |-> create_big_integer(0, FALSE), temp |-> create_big_integer(0, FALSE),
   f |-> NoFlags]

InitMulSmall ==
  /\ testcase \in MulSmallTestcases
  /\ i = 0
  /\ res_bufs = <<NoSmallProduct, NoSmallProduct>>
  /\ passed = "running"

\* the multiplication with simd = true
MulSmallSimd ==
  /\ passed = "running"
  /\ i = 0
  /\ res_bufs' = [res_bufs EXCEPT ![1] = mul_small(testcase, TRUE)]
  /\ i' = 1
  /\ UNCHANGED <<testcase, passed>>

\* the multiplication with simd = false, on the same operands
MulSmallSisd ==
  /\ passed = "running"
  /\ i = 1
  /\ res_bufs' = [res_bufs EXCEPT ![2] = mul_small(testcase, FALSE)]
  /\ i' = 2
  /\ passed' = "done"
  /\ UNCHANGED testcase

NextMulSmall == MulSmallSimd \/ MulSmallSisd

SpecMulSmall == InitMulSmall /\ [][NextMulSmall]_vars

\* C24: for every a and every m in -256 .. 256, with result and temp one byte
\* longer than a, big_integer_multiply_int_neg256_to_256 leaves in result the
\* magnitude |a| * |m|, and for m # 0 the sign a.sign XOR (m < 0).
C24_SmallProductExact ==
  \A k \in 1..2 :
    Ran(k) =>
      /\ res_bufs[k].result.mem
           = MagnitudeProduct(testcase.a.mem, TwoBytes(abs(testcase.mul)),
                              Len(testcase.a.mem) + 1)
      /\ testcase.mul # 0 => res_bufs[k].result.sign = (testcase.a.sign # (testcase.mul < 0))

\* ------------------------------------------------------------------------
\* The loop of convert_numbers_from_any_base_into_binary, one iteration at a
\* time
\* ------------------------------------------------------------------------

\* the most digits of an operand of the loop
WeightDigits == 3

WeightBases == {2, 10, 128, -2, -10, -128}

\* the operands of a base: 1 to WeightDigits digits, and in a positive base
\* also a '-' and up to WeightDigits - 1 digits
WeightOperands(base) ==
  UNION {DigitStrings(base, n) : n \in 1..WeightDigits}
  \cup (IF base > 0
        THEN {<<Minus>> \o z : z \in UNION {DigitStrings(base, n) :
                                              n \in 1..(WeightDigits - 1)}}
        ELSE {})

WeightTestcases ==
  UNION {[base : {b}, alph : {Alph(b)}, z1 : WeightOperands(b), z2 : WeightOperands(b),
          simd : BOOLEAN] : b \in WeightBases}

\* the big_integers the loop starts with when the entry point sizes the
\* operands for an addition
weights_start(t) ==
  convert_start(
    create_big_integer(max(get_big_integer_min_size(t.base, Len(t.z1)),
                           get_big_integer_min_size(t.base, Len(t.z2))) + 1, FALSE),
    create_big_integer(get_big_integer_min_size(t.base, Len(t.z2)), FALSE),
    get_big_integer_min_size_exponentiation(t.base, max(Len(t.z1), Len(t.z2))))

\* i counts the iterations done
InitWeights ==
  /\ testcase \in WeightTestcases
  /\ i = 0
  /\ res_bufs = <<weights_start(testcase)>>
  /\ passed = "running"

\* iteration i of the loop
ConvertStep ==
  /\ passed = "running"
  /\ i < max(Len(testcase.z1), Len(testcase.z2))
  /\ res_bufs' = <<convert_step(testcase.base, generate_lut(Len(testcase.alph), testcase.alph),
                                testcase.z1, testcase.z2, testcase.simd, res_bufs[1], i)>>
  /\ i' = i + 1
  /\ UNCHANGED <<testcase, passed>>

\* the end of the loop
ConvertDone ==
  /\ passed = "running"
  /\ i = max(Len(testcase.z1), Len(testcase.z2))
  /\ passed' = "done"
  /\ UNCHANGED <<testcase, i, res_bufs>>

NextWeights == ConvertStep \/ ConvertDone

SpecWeights == InitWeights /\ [][NextWeights]_vars

RECURSIVE MagnitudeValue(_)
\* the integer a magnitude holds
MagnitudeValue(m) == IF m = <<>> THEN 0 ELSE m[1] + 256 * MagnitudeValue(Tail(m))

\* the integer a big_integer holds
BigValue(x) == IF x.sign THEN -MagnitudeValue(x.mem) ELSE MagnitudeValue(x.mem)

RECURSIVE Power(_, _)
Power(base, n) == IF n = 0 THEN 1 ELSE base * Power(base, n - 1)

\* the value of the digit k places from the end of z, zero for a '-' and above
\* the string
DigitAt(base, alph, z, k) ==
  IF k >= Len(z) \/ z[Len(z) - k] = Minus THEN 0 ELSE digit_of(base, alph, z[Len(z) - k])

RECURSIVE PartialValue(_, _, _, _)
\* the sum of digit_k * base^k over the n lowest places of z
PartialValue(base, alph, z, n) ==
  IF n = 0 THEN 0
  ELSE PartialValue(base, alph, z, n - 1)
       + DigitAt(base, alph, z, n - 1) * Power(base, n - 1)

\* C25: when iteration i of the loop of convert_numbers_from_any_base_into_binary
\* starts, current_weight holds base^i, negative exactly when base < 0 and i is
\* odd; the contribution the iteration before added to an operand is its digit
\* times the weight of that iteration; and each operand holds the sum of
\* digit_k * base^k over the digits read, at the end over all its digits.
C25_WeightIsPowerOfBase ==
  LET t == testcase
      st == res_bufs[1]
  IN /\ i < max(Len(t.z1), Len(t.z2)) =>
          /\ BigValue(st.current_weight) = Power(t.base, i)
          /\ st.current_weight.sign <=> (t.base < 0 /\ i % 2 = 1)
     /\ (i >= 1 /\ i <= Len(t.z1)) =>
          BigValue(st.z1_temp) = DigitAt(t.base, t.alph, t.z1, i - 1) * Power(t.base, i - 1)
     /\ (i >= 1 /\ i <= Len(t.z2)) =>
          BigValue(st.z2_temp) = DigitAt(t.base, t.alph, t.z2, i - 1) * Power(t.base, i - 1)
     /\ BigValue(st.z1_binary) = PartialValue(t.base, t.alph, t.z1, i)
     /\ BigValue(st.z2_binary) = PartialValue(t.base, t.alph, t.z2, i)
     /\ ~st.f.w /\ ~st.f.ub

\* in base -128 the third iteration starts with the weight 16384 after a second
\* one that added 127 * -128 to z1, which holds 127 - 127 * 128
C25_Witness ==
  /\ testcase.base = -128 /\ i = 2
  /\ Len(testcase.z1) = 3 /\ Len(testcase.z2) = 1
  /\ BigValue(res_bufs[1].current_weight) = 16384
  /\ res_bufs[1].z1_temp.sign
  /\ BigValue(res_bufs[1].z1_temp) = -16256
  /\ BigValue(res_bufs[1].z1_binary) = -16129

\* ------------------------------------------------------------------------
\* The Double Dabble loop of convert_big_integer_to_any_base, one iteration at
\* a time
\* ------------------------------------------------------------------------

\* radices up to 128, and radices whose digits can have bit 7 set
DabbleBases == {2, 3, 10, 100, 127, 128, 129, 200, 255, 256}

\* the bytes the values are built from
DabbleBytes == {0, 1, 127, 128, 255}

\* the most bytes of a value
DabbleLength == 2

DabbleValues ==
  {create_big_integer_of_bytes(Tup(m), sign) :
     m \in UNION {[1..n -> DabbleBytes] : n \in 1..DabbleLength}, sign \in BOOLEAN}

RECURSIVE DigitsFor(_, _, _)
\* n - 1 more than the number of digits top has in the base
DigitsFor(base, top, n) ==
  IF top < base THEN n ELSE DigitsFor(base, top \div base, n + 1)

\* buffer_length is the number of digits the largest value of the length of
\* the value has in the base
DabbleTestcases ==
  {[value |-> v, base |-> b, simd |-> simd,
    buffer_length |-> DigitsFor(b, Power(2, 8 * Len(v.mem)) - 1, 1)] :
     v \in DabbleValues, b \in DabbleBases, simd \in BOOLEAN}

\* what the loop starts with
dabble_start(t) ==
  [calc_buffer |-> create_big_integer(t.buffer_length, FALSE),
   remaining_value |-> clone_big_integer(t.value), f |-> NoFlags, stop |-> FALSE]

\* i counts the iterations done
InitDabble ==
  /\ testcase \in DabbleTestcases
  /\ i = 0
  /\ res_bufs = <<dabble_start(testcase)>>
  /\ passed = "running"

\* iteration i of the loop
DabbleStep ==
  /\ passed = "running"
  /\ i < 8 * Len(testcase.value.mem)
  /\ res_bufs' = <<double_dabble_step(testcase.base % 256, (256 - testcase.base) % 256,
                                      testcase.simd, res_bufs[1], i)>>
  /\ i' = i + 1
  /\ UNCHANGED <<testcase, passed>>

\* the end of the loop
DabbleDone ==
  /\ passed = "running"
  /\ i = 8 * Len(testcase.value.mem)
  /\ passed' = "done"
  /\ UNCHANGED <<testcase, i, res_bufs>>

NextDabble == DabbleStep \/ DabbleDone

SpecDabble == InitDabble /\ [][NextDabble]_vars

RECURSIVE DigitsValue(_, _)
\* the integer the digits m have in the base, least significant first
DigitsValue(m, base) == IF m = <<>> THEN 0 ELSE m[1] + base * DigitsValue(Tail(m), base)

\* the i highest bits of the magnitude of the value
ConsumedPrefix(value, n) == MagnitudeValue(value.mem) \div Power(2, 8 * Len(value.mem) - n)

\* C26: in a base from 2 to 128, after every iteration of the Double Dabble
\* loop each byte of calc_buffer is a digit of the base, no carry was stored
\* past the last byte and no bit was shifted out of calc_buffer, and the digits
\* of calc_buffer are those of the bits of |value| consumed so far; after the
\* last iteration they are the digits of |value|.
C26_DabbleDigitsOfPrefix ==
  testcase.base <= 128 =>
    /\ \A k \in 1..Len(res_bufs[1].calc_buffer.mem) :
         res_bufs[1].calc_buffer.mem[k] < testcase.base
    /\ ~res_bufs[1].f.ub
    /\ ~res_bufs[1].f.lost
    /\ DigitsValue(res_bufs[1].calc_buffer.mem, testcase.base)
         = ConsumedPrefix(testcase.value, i)

\* in base 10 the loop has consumed the eight bits of 255 and left the digits
\* 5, 5, 2
C26_Witness ==
  /\ testcase.base = 10 /\ i = 8
  /\ testcase.value.mem = <<255>>
  /\ res_bufs[1].calc_buffer.mem = <<5, 5, 2>>

\* the loop has ended and left the digits of |value| in the radix
DabbleDigitsRight ==
  passed = "done" =>
    /\ \A k \in 1..Len(res_bufs[1].calc_buffer.mem) :
         res_bufs[1].calc_buffer.mem[k] < testcase.base
    /\ DigitsValue(res_bufs[1].calc_buffer.mem, testcase.base)
         = MagnitudeValue(testcase.value.mem)

ShortBufferLength == 6

ShortBufferBases == {2, 10, 128}

ShortBufferTestcases ==
  [value : DabbleValues, base : ShortBufferBases, buffer_length : 1..ShortBufferLength,
   simd : BOOLEAN]

InitShortBuffer ==
  /\ testcase \in ShortBufferTestcases
  /\ i = 0
  /\ res_bufs = <<Unwritten>>
  /\ passed = "running"

\* the call of convert_big_integer_to_any_base; it returns or ends the process
ProjectShort ==
  /\ passed = "running"
  /\ i = 0
  /\ \E out \in Outcomes(convert_big_integer_to_any_base(testcase.value, testcase.base,
                           Alph(testcase.base), testcase.buffer_length, testcase.simd)) :
       /\ res_bufs' = <<out>>
       /\ passed' = IF out.exit THEN "exited" ELSE "done"
  /\ i' = 1
  /\ UNCHANGED testcase

NextShortBuffer == ProjectShort

SpecShortBuffer == InitShortBuffer /\ [][NextShortBuffer]_vars

\* the number of digits |value| has in the base, one for zero
DigitCount(value, base) == DigitsFor(base, MagnitudeValue(value.mem), 1)

\* the characters the projection of value needs: sign, digits and NUL
CharsNeeded(value, base) == (IF value.sign THEN 1 ELSE 0) + DigitCount(value, base) + 1

RECURSIVE DigitChars(_, _, _, _)
\* the count digits of n in the base as characters, most significant first
DigitChars(n, base, alph, count) ==
  IF count = 0 THEN <<>>
  ELSE Append(DigitChars(n \div base, base, alph, count - 1), alph[(n % base) + 1])

\* the sign and the digits of value in the base
SignAndDigits(value, base) ==
  (IF value.sign THEN <<Minus>> ELSE <<>>)
    \o DigitChars(MagnitudeValue(value.mem), base, Alph(base), DigitCount(value, base))

NegativeBases == {-2, -3, -10, -127, -128}

NegativeTestcases == [value : DabbleValues, base : NegativeBases, simd : BOOLEAN]

\* what the loop starts with
negative_start(t) ==
  [value |-> t.value,
   temp |-> create_big_integer(Len(t.value.mem), FALSE),
   temp2 |-> create_big_integer(Len(t.value.mem), FALSE),
   digits |-> <<>>, exit |-> FALSE, f |-> NoFlags, stop |-> FALSE]

\* what an iteration divided and what the division returned: old is the value
\* before the iteration, quotient the value big_integer_division_int9_t left
\* and remainder16 what it returned
NotDivided ==
  [old |-> create_big_integer(0, FALSE), quotient |-> create_big_integer(0, FALSE),
   remainder16 |-> 0]

divided(base, simd, st) ==
  With(big_integer_division_int9_t(st.value, base, st.temp, st.temp2, simd), LAMBDA d :
    [old |-> st.value, quotient |-> d.value, remainder16 |-> d.remainder16])

\* i counts the iterations done
InitNegative ==
  /\ testcase \in NegativeTestcases
  /\ i = 0
  /\ res_bufs = <<negative_start(testcase), NotDivided>>
  /\ passed = "running"

\* an iteration of the while loop, entered while value is not zero
NegativeStep ==
  /\ passed = "running"
  /\ ~big_integer_is_zero(res_bufs[1].value, testcase.simd)
  /\ res_bufs' = <<to_base_negative_step(testcase.base, Alph(testcase.base), testcase.simd,
                                         res_bufs[1], i),
                   divided(testcase.base, testcase.simd, res_bufs[1])>>
  /\ i' = i + 1
  /\ passed' = IF res_bufs'[1].exit THEN "exited" ELSE "running"
  /\ UNCHANGED testcase

\* the loop ends, or is not entered, with value zero
NegativeDone ==
  /\ passed = "running"
  /\ big_integer_is_zero(res_bufs[1].value, testcase.simd)
  /\ passed' = "done"
  /\ UNCHANGED <<testcase, i, res_bufs>>

NextNegative == NegativeStep \/ NegativeDone

SpecNegative == InitNegative /\ [][NextNegative]_vars

\* the condition of the while loop
LoopEntered ==
  passed = "running" /\ ~big_integer_is_zero(res_bufs[1].value, testcase.simd)

\* The loop is sequential code: it goes on while it can.  NegativeStep is
\* enabled exactly when LoopEntered holds, so its weak fairness is stated on
\* that condition.
FairSpecNegative ==
  /\ SpecNegative
  /\ WF_vars(NegativeDone)
  /\ ([]<>(~LoopEntered) \/ []<><<NegativeStep>>_vars)

\* the remainder the last iteration emitted a digit for
EmittedRemainder ==
  IF res_bufs[2].remainder16 < 0 THEN res_bufs[2].remainder16 + abs(testcase.base)
  ELSE res_bufs[2].remainder16

\* the last iteration emitted a digit of the base, and the value it divided is
\* the value it left times the base plus that digit
NegativeStepRight ==
  i >= 1 =>
    /\ passed # "exited"
    /\ EmittedRemainder >= 0 /\ EmittedRemainder < abs(testcase.base)
    /\ Len(res_bufs[1].digits) = i
    /\ res_bufs[1].digits[i] = Alph(testcase.base)[EmittedRemainder + 1]
    /\ BigValue(res_bufs[2].old)
         = BigValue(res_bufs[1].value) * testcase.base + EmittedRemainder

\* C29: in every negative base of magnitude 2 to 128 the division loop of the
\* projection ends with the value at zero, every iteration emits a remainder
\* in [0, |base|), and the value before an iteration is the value after it
\* times the base plus the digit.
C29_NegativeProjectionTerminates ==
  /\ []NegativeStepRight
  /\ <>(passed = "done" /\ IsZeroMagnitude(res_bufs[1].value.mem))

\* -511 in base -2: the first division leaves the quotient 255 and the
\* remainder -1, the digit is 1 and the increment carries into the second byte
C29_Witness ==
  /\ i = 1 /\ testcase.base = -2
  /\ testcase.value = create_big_integer_of_bytes(<<255, 1>>, TRUE)
  /\ res_bufs[2].remainder16 = -1
  /\ res_bufs[1].value = create_big_integer_of_bytes(<<0, 1>>, FALSE)
  /\ res_bufs[1].digits = <<49>>

\* C30: the division returns a negative remainder only for a negative value,
\* and then leaves a quotient whose sign is not set, so big_integer_increment
\* is called only on a value that is not negative.
C30_IncrementOnNonNegative ==
  (i >= 1 /\ res_bufs[2].remainder16 < 0)
    => /\ res_bufs[2].old.sign
       /\ ~res_bufs[2].quotient.sign
       /\ res_bufs[1].value = big_integer_increment(res_bufs[2].quotient)

\* -1 in base -10: the division leaves the quotient +0 and the remainder -1,
\* and the increment makes the value 1
C30_Witness ==
  /\ i = 1 /\ testcase.base = -10
  /\ testcase.value = create_big_integer_of_bytes(<<1>>, TRUE)
  /\ res_bufs[2].remainder16 = -1
  /\ res_bufs[2].quotient = create_big_integer_of_bytes(<<0>>, FALSE)
  /\ res_bufs[1].value = create_big_integer_of_bytes(<<1>>, FALSE)

====
